---------------------------- MODULE Spec2Model ----------------------------
(***************************************************************************)
(* A model of the rendering core of the Nazara engine:                     *)
(*   - the NzRenderer state cache (dirty flags, matrix slots, texture      *)
(*     units, vertex-array-object table, draw calls), and                  *)
(*   - the NzDeferredRenderQueue batching engine.                          *)
(* All line numbers refer to src/include/Nazara/Graphics/Model.hpp.        *)
(***************************************************************************)
EXTENDS Integers, Sequences, FiniteSets, TLC

Null == "null"

(***************************************************************************)
(* 4x4 matrices.  NzMatrix4f is not part of the sources; a matrix is       *)
(* modelled as a 2x2 matrix over GF(2), <<a, b, c, d>> = [a b; c d]: a     *)
(* non-commutative ring with singular elements, so that products depend on *)
(* both factors and on their order, and inversion can fail.                *)
(***************************************************************************)
Bit == {0, 1}

Matrix4 == Bit \X Bit \X Bit \X Bit

Identity == <<1, 0, 0, 1>>

\* NzMatrix4::Concatenate / operator* : this x other
Concatenate(a, b) ==
    << (a[1] * b[1] + a[2] * b[3]) % 2, (a[1] * b[2] + a[2] * b[4]) % 2,
       (a[3] * b[1] + a[4] * b[3]) % 2, (a[3] * b[2] + a[4] * b[4]) % 2 >>

\* NzMatrix4::ConcatenateAffine: the same product, for affine operands
ConcatenateAffine(a, b) == Concatenate(a, b)

GetDeterminant(m) == (m[1] * m[4] + m[2] * m[3]) % 2

\* NzMatrix4::GetInverse(dest): FALSE and dest untouched when singular
InverseExists(m) == GetDeterminant(m) # 0

\* over GF(2) the adjugate of an invertible matrix is its inverse
InverseOf(m) == << m[4], m[2], m[3], m[1] >>

GetInverse(m, dest) == IF InverseExists(m) THEN InverseOf(m) ELSE dest

(***************************************************************************)
(* nzMatrixType, in the order of the enumeration (the order in which       *)
(* EnsureStateUpdate resolves the uniform locations, lines 1581-1594).     *)
(***************************************************************************)
MatrixOrder ==
    << "Projection", "View", "World",
       "ViewProj", "WorldView", "WorldViewProj",
       "InvProjection", "InvView", "InvViewProj",
       "InvWorld", "InvWorldView", "InvWorldViewProj" >>

MatrixTypes == { MatrixOrder[i] : i \in 1..Len(MatrixOrder) }

BaseTypes == {"Projection", "View", "World"}

DerivedTypes == MatrixTypes \ BaseTypes

\* UpdateFlags (lines 157-165)
Update_Matrices == "Update_Matrices"
Update_Program  == "Update_Program"
Update_Textures == "Update_Textures"
Update_VAO      == "Update_VAO"

UpdateFlags == {Update_Matrices, Update_Program, Update_Textures, Update_VAO}

(***************************************************************************)
(* The resources of the environment.  Every resource is an identity (an    *)
(* address); what the renderer reads through it is a fixed attribute.      *)
(***************************************************************************)
Contexts == {"ctx1", "ctx2"}

IndexBuffers == {"ib1"}

\* the renderer's own s_fullscreenQuadBuffer (line 190) is a vertex buffer too
FullscreenQuadBuffer == "quadVB"

VertexBuffers == {"vb1", "vb2", FullscreenQuadBuffer}

\* a buffer that is not in hardware storage (IsHardware() is false)
SoftwareBuffers == {"vbSoft", "ibSoft"}

VertexDeclarations == {"decl1", "declXY"}

\* NzVertexBuffer::GetVertexDeclaration
VertexDeclarationOf(vb) == IF vb = FullscreenQuadBuffer THEN "declXY" ELSE "decl1"

Programs == {"prog1", "prog2"}

\* a program that failed to compile (IsCompiled() is false)
UncompiledPrograms == {"progBad"}

\* NzAbstractShaderProgram::GetUniformLocation: -1 when the uniform is absent
MatrixUniformsOf(program) ==
    IF program = "prog1" THEN {"WorldViewProj", "InvViewProj"}
    ELSE IF program = "prog2" THEN {"View", "WorldView", "InvWorld"}
    ELSE {}

PositionOf(type) == CHOOSE i \in 1..Len(MatrixOrder) : MatrixOrder[i] = type

GetUniformLocation(program, type) ==
    IF type \in MatrixUniformsOf(program) THEN PositionOf(type) ELSE -1

\* whether the program declares the TargetSize / InvTargetSize uniforms
HasTargetSizeUniform(program) == program = "prog1"

Targets == {"target1", "target2"}

\* NzRenderTarget::GetWidth/GetHeight, as one number
TargetSizeOf(target) == IF target = "target1" THEN 1 ELSE 2

Textures == {"tex1", "tex2"}

\* NzTexture::HasMipmaps
HasMipmaps(texture) == texture = "tex1"

\* GL_MAX_COMBINED_TEXTURE_IMAGE_UNITS as read by Initialize (lines 822-830)
s_maxTextureUnit == 2

TextureUnitIds == 0 .. (s_maxTextureUnit - 1)

\* s_instanceBuffer.GetVertexCount() (lines 461, 556)
MaxInstanceCount == 2

(***************************************************************************)
(* What is submitted to the render queue                                   *)
(***************************************************************************)
Materials == {"matA", "matB", "matBlend"}

\* material->IsEnabled(nzRendererParameter_Blend)
IsBlendEnabled(material) == material = "matBlend"

StaticMeshes == {"meshA", "meshB"}

SkeletalMeshes == {"skelA", "skelB"}

\* subMesh->GetAnimationType()
GetAnimationType(subMesh) ==
    IF subMesh \in SkeletalMeshes THEN "nzAnimationType_Skeletal" ELSE "nzAnimationType_Static"

\* the transform matrices of the submissions are told apart by a name
Transforms == {"T1", "T2"}

Lights == {"sun", "lamp", "torch"}

\* light->GetLightType()
GetLightType(light) ==
    CASE light = "sun"   -> "nzLightType_Directional"
      [] light = "lamp"  -> "nzLightType_Point"
      [] light = "torch" -> "nzLightType_Spot"

Sprites == {"sprite1", "spriteBlend", "spriteHidden"}

\* sprite->GetMaterial()
SpriteMaterial(sprite) == IF sprite = "spriteBlend" THEN "matBlend" ELSE "matA"

Models == {"model1", "modelHidden"}

\* sprite->IsDrawable(), model->IsDrawable()
IsDrawable(drawable) == drawable \notin {"spriteHidden", "modelHidden"}

\* model->GetMesh()->GetSubMesh(i) and the material of each sub-mesh
ModelSubMeshes(model) ==
    << [subMesh |-> "meshA", material |-> "matA"],
       [subMesh |-> "meshB", material |-> "matA"] >>

\* model->GetTransformMatrix()
ModelTransform(model) == "T1"

Drawables == {"drawable1"}

\* the resources the queue listens to
QueueResources == Materials \cup StaticMeshes \cup SkeletalMeshes

\* NAZARA_GRAPHICS_INSTANCING_MIN_INSTANCES_COUNT (line 2166).  Config.hpp,
\* which sets it, is not part of the sources: 3 is the value of the
\* specification's scenario.
NAZARA_GRAPHICS_INSTANCING_MIN_INSTANCES_COUNT == 3

VARIABLES
    \* ---- the renderer's state (lines 185-208) ----
    s_matrices,              \* [MatrixTypes -> [matrix, updated, location]]
    s_updateFlags,           \* subset of UpdateFlags
    s_program,
    s_target,
    s_targetSize,
    s_textureUnits,          \* [TextureUnitIds -> [texture, sampler, samplerUpdated, textureUpdated]]
    s_dirtyTextureUnits,
    s_indexBuffer,
    s_vertexBuffer,
    s_instancing,
    s_instancingDeclaration,
    s_vaos,                  \* [contexts with a table -> [VAO_Key -> handle]]
    s_currentVAO,
    s_useSamplerObjects,
    s_useVertexArrayObjects,
    s_capInstancing,         \* s_capabilities[nzRendererCap_Instancing]
    s_moduleReferenceCounter,
    s_states,                \* the line width and the point size of s_states
    \* ---- the environment ----
    currentContext,          \* NzContext::GetCurrent()
    alive,                   \* the resources not destroyed yet
    listenerRegs,            \* [resource -> registrations of s_listener]
    glVaoNames,              \* [Contexts -> number of names glGenVertexArrays gave out]
    \* ---- history ----
    ops,                     \* the GPU operations of the last call, in order
    lastCall,                \* the last call and its result
    esuRun,                  \* successful EnsureStateUpdate calls in a row, at most 2
    useAfterFree,            \* a call dereferenced a destroyed resource
    derivedOverridden,       \* SetMatrix was called on a derived slot
    calls                    \* the number of calls so far

VARIABLES
    \* ---- NzDeferredRenderQueue ----
    opaqueModels,            \* [materials -> [used, enableInstancing, skeletalMeshes, staticMeshes]]
    sprites,                 \* [materials -> sequence of sprites]
    directionalLights,
    pointLights,
    spotLights,
    m_forwardQueue,          \* the calls forwarded to the forward queue, in order
    queueListenerRegs,       \* [resource -> registrations of the queue as a listener]
    destroyed,               \* history: the materials and meshes destroyed so far
    queueDerefs              \* history: the materials and meshes the last call read

queueVars ==
    << opaqueModels, sprites, directionalLights, pointLights, spotLights, m_forwardQueue,
       queueListenerRegs, destroyed, queueDerefs >>

rendererVars ==
    << s_matrices, s_updateFlags, s_program, s_target, s_targetSize, s_textureUnits,
       s_dirtyTextureUnits, s_indexBuffer, s_vertexBuffer, s_instancing,
       s_instancingDeclaration, s_vaos, s_currentVAO, s_useSamplerObjects,
       s_useVertexArrayObjects, s_capInstancing, s_moduleReferenceCounter,
       s_states >>

envVars == << currentContext, alive, listenerRegs, glVaoNames >>

historyVars == << ops, lastCall, esuRun, useAfterFree, derivedOverridden, calls >>

vars == << rendererVars, envVars, historyVars, queueVars >>

\* one more call, of at most max
Tick(max) == calls < max /\ calls' = calls + 1

(***************************************************************************)
(* The functions of the renderer are operators from a state record to a    *)
(* state record, so that a function can call another one as the code does. *)
(* Cur is the current state as a record and Commit(st) makes st the next   *)
(* state.  The fields ops and result are the GPU operations issued and the *)
(* value returned by the call.                                             *)
(***************************************************************************)
Cur ==
    [ s_matrices |-> s_matrices, s_updateFlags |-> s_updateFlags, s_program |-> s_program,
      s_target |-> s_target, s_targetSize |-> s_targetSize,
      s_textureUnits |-> s_textureUnits, s_dirtyTextureUnits |-> s_dirtyTextureUnits,
      s_indexBuffer |-> s_indexBuffer, s_vertexBuffer |-> s_vertexBuffer,
      s_instancing |-> s_instancing, s_vaos |-> s_vaos, s_currentVAO |-> s_currentVAO,
      s_moduleReferenceCounter |-> s_moduleReferenceCounter, s_states |-> s_states,
      listenerRegs |-> listenerRegs, glVaoNames |-> glVaoNames,
      useAfterFree |-> useAfterFree, ops |-> << >>, result |-> TRUE ]

Commit(st) ==
    /\ s_matrices' = st.s_matrices
    /\ s_updateFlags' = st.s_updateFlags
    /\ s_program' = st.s_program
    /\ s_target' = st.s_target
    /\ s_targetSize' = st.s_targetSize
    /\ s_textureUnits' = st.s_textureUnits
    /\ s_dirtyTextureUnits' = st.s_dirtyTextureUnits
    /\ s_indexBuffer' = st.s_indexBuffer
    /\ s_vertexBuffer' = st.s_vertexBuffer
    /\ s_instancing' = st.s_instancing
    /\ s_vaos' = st.s_vaos
    /\ s_currentVAO' = st.s_currentVAO
    /\ s_moduleReferenceCounter' = st.s_moduleReferenceCounter
    /\ s_states' = st.s_states
    /\ listenerRegs' = st.listenerRegs
    /\ glVaoNames' = st.glVaoNames
    /\ useAfterFree' = st.useAfterFree
    /\ ops' = st.ops
    /\ UNCHANGED << s_instancingDeclaration, s_useSamplerObjects, s_useVertexArrayObjects,
                    s_capInstancing >>
    /\ UNCHANGED queueVars

Fail(st) == [st EXCEPT !.result = FALSE]

\* Body applied to value, which is computed once: the statements of a function
\* run one after the other on the state the previous ones left
With(value, Body(_)) == CHOOSE next \in { Body(v) : v \in {value} } : TRUE

Gpu(st, op) == [st EXCEPT !.ops = Append(@, op)]

(***************************************************************************)
(* NzRenderer::SetMatrix (lines 1071-1138)                                 *)
(***************************************************************************)
\* the slots whose "updated" flag the switch of lines 1085-1135 clears
InvalidatedBy(type) ==
    CASE type = "Projection" ->
            {"InvProjection", "InvViewProj", "InvWorldViewProj", "ViewProj", "WorldViewProj"}
      [] type = "View" ->
            {"InvView", "InvViewProj", "InvWorld", "InvWorldViewProj", "ViewProj", "World",
             "WorldViewProj"}
      [] type = "World" ->
            {"InvWorld", "InvWorldView", "InvWorldViewProj", "WorldView", "WorldViewProj"}
      [] type = "ViewProj" -> {"InvViewProj"}
      [] type = "WorldView" -> {"InvWorldView", "WorldViewProj"}
      [] type = "WorldViewProj" -> {"InvWorldViewProj"}
      [] OTHER -> {}

SetMatrix(st, type, matrix) ==
    [st EXCEPT
        !.s_matrices =
            [t \in MatrixTypes |->
                IF t = type
                    THEN [st.s_matrices[t] EXCEPT !.matrix = matrix, !.updated = TRUE]
                ELSE IF t \in InvalidatedBy(type)
                    THEN [st.s_matrices[t] EXCEPT !.updated = FALSE]
                ELSE st.s_matrices[t]],
        !.s_updateFlags = @ \cup {Update_Matrices}]

(***************************************************************************)
(* NzRenderer::UpdateMatrix (lines 1890-1991), on the matrix slots ms      *)
(***************************************************************************)
RECURSIVE UpdateMatrix(_, _)
\* "if (!s_matrices[type].updated) UpdateMatrix(type)"
EnsureUpdated(ms, type) ==
    With(ms, LAMBDA m : IF ~m[type].updated THEN UpdateMatrix(m, type) ELSE m)

\* UpdateMatrix on an inverse slot that stays stale when GetInverse fails
UpdateInverseOnSuccess(ms, inv, forward) ==
    With(EnsureUpdated(ms, forward), LAMBDA m1 :
        [m1 EXCEPT ![inv].matrix = GetInverse(m1[forward].matrix, m1[inv].matrix),
                   ![inv].updated = InverseExists(m1[forward].matrix)])

\* lines 1931-1989: an inverse slot is marked updated whether or not
\* GetInverse succeeded
UpdateInverse(ms, inv, forward) ==
    With(EnsureUpdated(ms, forward), LAMBDA m1 :
        [m1 EXCEPT ![inv].matrix = GetInverse(m1[forward].matrix, m1[inv].matrix),
                   ![inv].updated = TRUE])

UpdateMatrix(ms, type) ==
    CASE type \in BaseTypes ->
            [ms EXCEPT ![type].updated = TRUE]
      [] type = "ViewProj" ->
            [ms EXCEPT !["ViewProj"].matrix =
                            Concatenate(ms["View"].matrix, ms["Projection"].matrix),
                       !["ViewProj"].updated = TRUE]
      [] type = "WorldView" ->
            [ms EXCEPT !["WorldView"].matrix =
                            ConcatenateAffine(ms["World"].matrix, ms["View"].matrix),
                       !["WorldView"].updated = TRUE]
      [] type = "WorldViewProj" ->
            With(EnsureUpdated(ms, "WorldView"), LAMBDA m1 :
                [m1 EXCEPT !["WorldViewProj"].matrix =
                                Concatenate(m1["WorldView"].matrix, m1["Projection"].matrix),
                           !["WorldViewProj"].updated = TRUE])
      [] type = "InvProjection"    -> UpdateInverse(ms, "InvProjection", "Projection")
      [] type = "InvView"          -> UpdateInverse(ms, "InvView", "View")
      [] type = "InvViewProj"      -> UpdateInverse(ms, "InvViewProj", "ViewProj")
      [] type = "InvWorld"         -> UpdateInverse(ms, "InvWorld", "World")
      [] type = "InvWorldView"     -> UpdateInverse(ms, "InvWorldView", "WorldView")
      [] type = "InvWorldViewProj" -> UpdateInverse(ms, "InvWorldViewProj", "WorldViewProj")

(***************************************************************************)
(* NzRenderer::GetMatrix (lines 658-672); result is the matrix returned    *)
(***************************************************************************)
GetMatrix(st, type) ==
    With(EnsureUpdated(st.s_matrices, type), LAMBDA ms :
        [st EXCEPT !.s_matrices = ms, !.result = ms[type].matrix])

(***************************************************************************)
(* Buffers, instancing, program and target setters                         *)
(***************************************************************************)
IsHardware(buffer) == buffer \notin SoftwareBuffers

IsCompiled(program) == program \notin UncompiledPrograms

\* NzRenderer::SetIndexBuffer (lines 1041-1056)
SetIndexBuffer(st, indexBuffer) ==
    With(st, LAMBDA s :
        IF indexBuffer # Null /\ ~IsHardware(indexBuffer) THEN s
        ELSE IF s.s_indexBuffer # indexBuffer
            THEN [s EXCEPT !.s_indexBuffer = indexBuffer,
                           !.s_updateFlags = @ \cup {Update_VAO}]
        ELSE s)

\* NzRenderer::SetVertexBuffer (lines 1449-1464)
SetVertexBuffer(st, vertexBuffer) ==
    With(st, LAMBDA s :
        IF vertexBuffer # Null /\ ~IsHardware(vertexBuffer) THEN s
        ELSE IF vertexBuffer # Null /\ s.s_vertexBuffer # vertexBuffer
            THEN [s EXCEPT !.s_vertexBuffer = vertexBuffer,
                           !.s_updateFlags = @ \cup {Update_VAO}]
        ELSE s)

\* NzRenderer::EnableInstancing (lines 1539-1546)
EnableInstancing(st, instancing) ==
    With(st, LAMBDA s :
        IF s.s_instancing # instancing
            THEN [s EXCEPT !.s_updateFlags = @ \cup {Update_VAO}, !.s_instancing = instancing]
        ELSE s)

\* NzRenderer::GetInstanceBuffer (lines 631-643)
GetInstanceBuffer(st) ==
    IF ~s_capInstancing THEN Fail(st)
    ELSE [st EXCEPT !.s_updateFlags = @ \cup {Update_VAO}]

\* NzRenderStates(), line 836: the width of a line and the size of a point,
\* which are floating-point numbers in the code and integers here
DefaultRenderStates == [lineWidth |-> 1, pointSize |-> 1]

\* SetLineWidth without the check of lines 1061-1065
SetLineWidthUnchecked(st, width) == [st EXCEPT !.s_states.lineWidth = width]

\* NzRenderer::SetLineWidth (lines 1058-1069)
SetLineWidth(st, width) ==
    IF width <= 0 THEN st ELSE [st EXCEPT !.s_states.lineWidth = width]

\* NzRenderer::SetPointSize (lines 1140-1151)
SetPointSize(st, size) ==
    IF size <= 0 THEN st ELSE [st EXCEPT !.s_states.pointSize = size]

\* NzRenderer::Clear (lines 316-346).  With no target bound, line 329 calls a
\* function through a null pointer, which is undefined behaviour: the call
\* stops there or goes on ("survives").
RendererClear(st, flags, survives) ==
    IF currentContext = Null \/ flags = 0 THEN st
    ELSE IF st.s_target = Null /\ ~survives THEN Gpu(st, "EnsureTargetUpdated")
    ELSE Gpu(Gpu(Gpu(st, "EnsureTargetUpdated"), "ApplyStates"), "Clear")

\* NzRenderer::SetShaderProgram (lines 1163-1178)
SetShaderProgram(st, program) ==
    With(st, LAMBDA s :
        IF program # Null /\ ~IsCompiled(program) THEN s
        ELSE IF s.s_program # program
            THEN [s EXCEPT !.s_program = program, !.s_updateFlags = @ \cup {Update_Program}]
        ELSE s)

\* NzRenderer::SetTarget (lines 1362-1401); renderable and activated are the
\* answers of target->IsRenderable() and target->Activate()
SetTarget(st, target, renderable, activated) ==
    With(st, LAMBDA s :
        IF s.s_target = target THEN s
        ELSE IF target = Null THEN [s EXCEPT !.s_target = Null]
        ELSE IF ~renderable \/ ~activated THEN Fail([s EXCEPT !.s_target = Null])
        ELSE [s EXCEPT !.s_target = target])

\* NzRenderer::OnProgramReleased (lines 1871-1878)
OnProgramReleased(st, program) ==
    With(st, LAMBDA s :
        IF s.s_program = program
            THEN [s EXCEPT !.s_program = Null, !.s_updateFlags = @ \cup {Update_Program}]
        ELSE s)

(***************************************************************************)
(* Texture units                                                           *)
(***************************************************************************)
\* NzTextureSampler() : a sampler is its configuration and its mipmap switch
DefaultSampler == [config |-> "default", mipmaps |-> TRUE]

SamplerInputs == { [config |-> "custom", mipmaps |-> TRUE] }

\* NzTextureSampler::UseMipmaps returns whether the switch changed
UseMipmapsChanges(sampler, mipmaps) == sampler.mipmaps # mipmaps

UseMipmaps(sampler, mipmaps) == [sampler EXCEPT !.mipmaps = mipmaps]

\* TextureUnit (lines 174-180)
DefaultTextureUnit ==
    [texture |-> Null, sampler |-> DefaultSampler, samplerUpdated |-> FALSE,
     textureUpdated |-> TRUE]

\* NzRenderer::SetTexture (lines 1403-1427)
SetTexture(st, unit, texture) ==
    IF unit >= s_maxTextureUnit THEN st
    ELSE IF st.s_textureUnits[unit].texture # texture
        THEN LET u == st.s_textureUnits[unit]
                 resample == texture # Null /\ UseMipmapsChanges(u.sampler, HasMipmaps(texture))
             IN  [st EXCEPT
                    !.s_textureUnits[unit] =
                        [texture |-> texture,
                         sampler |-> IF texture # Null
                                         THEN UseMipmaps(u.sampler, HasMipmaps(texture))
                                         ELSE u.sampler,
                         samplerUpdated |-> IF resample THEN FALSE ELSE u.samplerUpdated,
                         textureUpdated |-> FALSE],
                    !.s_dirtyTextureUnits = @ \cup {unit},
                    !.s_updateFlags = @ \cup {Update_Textures}]
    ELSE st

\* NzRenderer::SetTextureSampler (lines 1429-1447)
SetTextureSampler(st, unit, sampler) ==
    IF unit >= s_maxTextureUnit THEN st
    ELSE LET u == st.s_textureUnits[unit]
         IN  [st EXCEPT
                !.s_textureUnits[unit] =
                    [u EXCEPT !.sampler = IF u.texture # Null
                                              THEN UseMipmaps(sampler, HasMipmaps(u.texture))
                                              ELSE sampler,
                              !.samplerUpdated = FALSE],
                !.s_dirtyTextureUnits = @ \cup {unit},
                !.s_updateFlags = @ \cup {Update_Textures}]

\* OnTextureReleased marking the textures for an update
OnTextureReleasedSettingFlag(st, texture) ==
    [st EXCEPT !.s_textureUnits =
                    [i \in DOMAIN st.s_textureUnits |->
                        IF st.s_textureUnits[i].texture = texture
                            THEN [st.s_textureUnits[i] EXCEPT !.texture = Null]
                        ELSE st.s_textureUnits[i]],
               !.s_updateFlags = @ \cup {Update_Textures}]

\* NzRenderer::OnTextureReleased (lines 1880-1888)
OnTextureReleased(st, texture) ==
    [st EXCEPT !.s_textureUnits =
        [i \in DOMAIN st.s_textureUnits |->
            IF st.s_textureUnits[i].texture = texture
                THEN [st.s_textureUnits[i] EXCEPT !.texture = Null]
            ELSE st.s_textureUnits[i]]]

(***************************************************************************)
(* Resource listeners (NzResource::AddResourceListener): how many times    *)
(* s_listener is registered with each resource.  The tag of a registration *)
(* is the kind of the resource.                                            *)
(***************************************************************************)
ListenedResources == Contexts \cup IndexBuffers \cup VertexBuffers \cup VertexDeclarations

ResourceTypeOf(resource) ==
    IF resource \in Contexts THEN "ResourceType_Context"
    ELSE IF resource \in IndexBuffers THEN "ResourceType_IndexBuffer"
    ELSE IF resource \in VertexBuffers THEN "ResourceType_VertexBuffer"
    ELSE "ResourceType_VertexDeclaration"

\* a call through a pointer to a destroyed resource is undefined behaviour:
\* it is recorded, and registers nothing
Deref(st, resource) ==
    IF resource \in alive THEN st ELSE [st EXCEPT !.useAfterFree = TRUE]

AddResourceListener(st, resource) ==
    IF resource \in alive /\ resource \in ListenedResources
        THEN [st EXCEPT !.listenerRegs[resource] = @ + 1]
    ELSE Deref(st, resource)

(***************************************************************************)
(* NzRenderer::EnsureStateUpdate (lines 1548-1869), stage by stage         *)
(***************************************************************************)
\* ResolveProgram without line 1598: the matrices are not marked for sending
ResolveProgramWithoutMatrices(st) ==
    With(st, LAMBDA s :
        IF Update_Program \in s.s_updateFlags
            THEN [s EXCEPT
                    !.s_matrices =
                        [t \in MatrixTypes |->
                            [s.s_matrices[t] EXCEPT
                                !.location = GetUniformLocation(s.s_program, t)]],
                    !.s_targetSize = 0,
                    !.s_updateFlags = @ \ {Update_Program}]
        ELSE s)

\* lines 1577-1600: the program changed since the last time
ResolveProgram(st) ==
    With(st, LAMBDA s :
        IF Update_Program \in s.s_updateFlags
            THEN [s EXCEPT
                    !.s_matrices =
                        [t \in MatrixTypes |->
                            [s.s_matrices[t] EXCEPT
                                !.location = GetUniformLocation(s.s_program, t)]],
                    !.s_targetSize = 0,
                    !.s_updateFlags = (@ \cup {Update_Matrices}) \ {Update_Program}]
        ELSE s)

\* lines 1604-1619: the uniforms of the render target's size
SendTargetSize(st) ==
    With(st, LAMBDA s :
        IF s.s_targetSize # TargetSizeOf(s.s_target)
            THEN [(IF HasTargetSizeUniform(s.s_program)
                       THEN Gpu(Gpu(s, "SendVector"), "SendVector")
                       ELSE s)
                    EXCEPT !.s_targetSize = TargetSizeOf(s.s_target)]
        ELSE s)

\* lines 1629-1646 and 1653-1664: one dirty texture unit
UpdateTextureUnit(st, i) ==
    With(st, LAMBDA s :
        LET unit == s.s_textureUnits[i]
        IN  IF unit.texture = Null THEN s
            ELSE IF s_useSamplerObjects
                THEN [(IF ~unit.textureUpdated /\ ~unit.samplerUpdated
                           THEN Gpu(Gpu(Gpu(s, "BindTextureUnit"), "EnsureMipmapsUpdate"),
                                    "SamplerBind")
                       ELSE IF ~unit.textureUpdated
                           THEN Gpu(Gpu(s, "BindTextureUnit"), "EnsureMipmapsUpdate")
                       ELSE IF ~unit.samplerUpdated
                           THEN Gpu(s, "SamplerBind")
                       ELSE s)
                        EXCEPT !.s_textureUnits[i].textureUpdated = TRUE,
                               !.s_textureUnits[i].samplerUpdated = TRUE]
            ELSE [Gpu(Gpu(Gpu(s, "BindTextureUnit"), "EnsureMipmapsUpdate"), "SamplerApply")
                    EXCEPT !.s_textureUnits[i].textureUpdated = TRUE,
                           !.s_textureUnits[i].samplerUpdated = TRUE])

\* the loop over s_dirtyTextureUnits, a std::set: in increasing order from i
RECURSIVE UpdateTextureUnitsFrom(_, _)
UpdateTextureUnitsFrom(st, i) ==
    With(st, LAMBDA s :
        IF i >= s_maxTextureUnit THEN s
        ELSE UpdateTextureUnitsFrom(
                IF i \in s.s_dirtyTextureUnits THEN UpdateTextureUnit(s, i) ELSE s, i + 1))

\* lines 1623-1670
ResolveTextures(st) ==
    With(st, LAMBDA s :
        IF Update_Textures \in s.s_updateFlags
            THEN [UpdateTextureUnitsFrom(s, 0) EXCEPT
                    !.s_dirtyTextureUnits = {},
                    !.s_updateFlags = @ \ {Update_Textures}]
        ELSE s)

\* the loop of lines 1674-1684 without the update of line 1680
RECURSIVE SendMatricesFromAsTheyAre(_, _)
SendMatricesFromAsTheyAre(st, i) ==
    With(st, LAMBDA s :
        IF i > Len(MatrixOrder) THEN s
        ELSE SendMatricesFromAsTheyAre(
                IF s.s_matrices[MatrixOrder[i]].location # -1 THEN Gpu(s, "SendMatrix") ELSE s,
                i + 1))

\* lines 1674-1684: the loop over the matrix slots from position i
RECURSIVE SendMatricesFrom(_, _)
SendMatricesFrom(st, i) ==
    With(st, LAMBDA s :
        IF i > Len(MatrixOrder) THEN s
        ELSE SendMatricesFrom(
                IF s.s_matrices[MatrixOrder[i]].location # -1
                    THEN Gpu([s EXCEPT !.s_matrices = EnsureUpdated(@, MatrixOrder[i])],
                             "SendMatrix")
                    ELSE s,
                i + 1))

\* ResolveMatrices without line 1686: the matrices are sent and the bit stays set
ResolveMatricesKeepingBit(st) == With(st, LAMBDA s : SendMatricesFrom(s, 1))

\* lines 1672-1687
ResolveMatrices(st) ==
    With(st, LAMBDA s :
        IF Update_Matrices \in s.s_updateFlags
            THEN [SendMatricesFrom(s, 1) EXCEPT !.s_updateFlags = @ \ {Update_Matrices}]
        ELSE s)

\* VAO_Key (line 182)
VAO_Key(indexBuffer, vertexBuffer, vertexDeclaration, instancingDeclaration) ==
    << indexBuffer, vertexBuffer, vertexDeclaration, instancingDeclaration >>

\* a function extended or overwritten at one point
Put(f, k, v) == [x \in DOMAIN f \cup {k} |-> IF x = k THEN v ELSE f[x]]

EmptyMap == << >>

\* lines 1707-1709: the table of the current context, created on first use
InsertContext(st, context) ==
    With(st, LAMBDA s :
        IF context \in DOMAIN s.s_vaos THEN s
        ELSE AddResourceListener([s EXCEPT !.s_vaos = Put(@, context, EmptyMap)], context))

\* the listeners of lines 1729-1738, on the parts of the key from position i
RECURSIVE ListenToKeyFrom(_, _, _)
ListenToKeyFrom(st, key, i) ==
    With(st, LAMBDA s :
        IF i > Len(key) THEN s
        ELSE ListenToKeyFrom(
                IF key[i] # Null \/ i \in {2, 3} THEN AddResourceListener(s, key[i]) ELSE s,
                key, i + 1))

\* lines 1722-1738: a new vertex array for the key
CreateVAO(st, context, key) ==
    With(st, LAMBDA s :
        LET name == s.glVaoNames[context] + 1
        IN  ListenToKeyFrom(
                [Gpu(Gpu(s, "GenVertexArrays"), "BindVertexArray") EXCEPT
                    !.glVaoNames[context] = name,
                    !.s_currentVAO = name,
                    !.s_vaos[context] = Put(@, key, name)],
                key, 1))

\* SelectVAO without the lookup of line 1719: a vertex array is created each time
SelectVAOAlwaysCreating(st, vertexDeclaration) ==
    IF s_useVertexArrayObjects
        THEN With(Deref(InsertContext(st, currentContext), st.s_vertexBuffer), LAMBDA s1 :
                [CreateVAO(s1, currentContext,
                           VAO_Key(s1.s_indexBuffer, s1.s_vertexBuffer, vertexDeclaration,
                                   IF s1.s_instancing THEN s_instancingDeclaration ELSE Null))
                    EXCEPT !.result = TRUE])
    ELSE [st EXCEPT !.result = TRUE]

\* lines 1702-1749: the vertex array to use; result is "update", whether the
\* attributes have to be programmed.  vertexDeclaration is what
\* s_vertexBuffer->GetVertexDeclaration() returned.
SelectVAO(st, vertexDeclaration) ==
    IF s_useVertexArrayObjects
        THEN With(Deref(InsertContext(st, currentContext), st.s_vertexBuffer), LAMBDA s1 :
                LET instancingDeclaration ==
                        IF s1.s_instancing THEN s_instancingDeclaration ELSE Null
                    key == VAO_Key(s1.s_indexBuffer, s1.s_vertexBuffer, vertexDeclaration,
                                   instancingDeclaration)
                IN  IF key \notin DOMAIN s1.s_vaos[currentContext]
                        THEN [CreateVAO(s1, currentContext, key) EXCEPT !.result = TRUE]
                    ELSE [s1 EXCEPT !.s_currentVAO = s1.s_vaos[currentContext][key],
                                    !.result = FALSE])
    ELSE [st EXCEPT !.result = TRUE]

\* lines 1751-1828: the vertex attributes and the index buffer
ProgramAttributes(st) ==
    With(st, LAMBDA s :
        With(Gpu(Gpu(Deref(s, s.s_vertexBuffer), "BindBuffer"), "VertexAttribPointer"),
             LAMBDA s1 :
                With(IF s.s_instancing
                         THEN Gpu(Gpu(Gpu(s1, "BindBuffer"), "VertexAttribPointer"),
                                  "VertexAttribDivisor")
                         ELSE Gpu(s1, "DisableVertexAttribArray"),
                     LAMBDA s2 :
                        IF s.s_indexBuffer # Null
                            THEN Gpu(Deref(s2, s.s_indexBuffer), "BindBuffer")
                        ELSE Gpu(s2, "BindBuffer"))))

\* the vertex array stage clearing its flag whether or not vertex array
\* objects are supported
ResolveVAOClearingFlag(st, vertexDeclaration) ==
    With(st, LAMBDA s :
        IF Update_VAO \notin s.s_updateFlags THEN s
        ELSE IF s.s_vertexBuffer = Null THEN Fail(s)
        ELSE With(SelectVAO(s, vertexDeclaration), LAMBDA selected :
                With(IF selected.result THEN ProgramAttributes(selected) ELSE selected,
                     LAMBDA s1 :
                        [Gpu([(IF s_useVertexArrayObjects /\ selected.result
                                   THEN Gpu(s1, "BindVertexArray") ELSE s1)
                                EXCEPT !.s_updateFlags = @ \ {Update_VAO}],
                             "SetBuffer")
                            EXCEPT !.result = TRUE])))

\* lines 1689-1843; result FALSE is the early "No vertex buffer" return
ResolveVAO(st, vertexDeclaration) ==
    With(st, LAMBDA s :
        IF Update_VAO \notin s.s_updateFlags THEN s
        ELSE IF s.s_vertexBuffer = Null THEN Fail(s)
        ELSE With(SelectVAO(s, vertexDeclaration), LAMBDA selected :
                With(IF selected.result THEN ProgramAttributes(selected) ELSE selected,
                     LAMBDA s1 :
                        [Gpu(IF s_useVertexArrayObjects
                                 THEN [(IF selected.result
                                            THEN Gpu(s1, "BindVertexArray") ELSE s1)
                                        EXCEPT !.s_updateFlags = @ \ {Update_VAO}]
                                 ELSE s1,
                             "SetBuffer")
                            EXCEPT !.result = TRUE])))

\* lines 1851-1868: bind the vertex array and the textures, apply the states
BindAndApply(st) ==
    With(IF s_useVertexArrayObjects THEN Gpu(st, "BindVertexArray") ELSE st, LAMBDA s1 :
        [Gpu(IF \E i \in TextureUnitIds : s1.s_textureUnits[i].texture # Null
                 THEN Gpu(s1, "BindTexture") ELSE s1,
             "ApplyStates")
            EXCEPT !.result = TRUE])

\* EnsureStateUpdate without the check of the target (lines 1565-1569)
EnsureStateUpdateWithoutTargetCheck(st, vertexDeclaration) ==
    With(st, LAMBDA s :
        IF currentContext = Null \/ s.s_program = Null THEN Fail(s)
        ELSE LET s1 == Gpu(Gpu([s EXCEPT !.result = TRUE], "EnsureTargetUpdated"),
                           "BindProgram")
                 s2 == SendTargetSize(Gpu(ResolveProgram(s1), "BindTextures"))
             IN  With(ResolveVAO(ResolveMatrices(ResolveTextures(s2)), vertexDeclaration),
                      LAMBDA s3 : IF ~s3.result THEN s3 ELSE BindAndApply(s3)))

\* EnsureStateUpdate with the matrices resolved before the textures
EnsureStateUpdateMatricesFirst(st, vertexDeclaration) ==
    With(st, LAMBDA s :
        IF currentContext = Null \/ s.s_program = Null \/ s.s_target = Null THEN Fail(s)
        ELSE LET s1 == Gpu(Gpu([s EXCEPT !.result = TRUE], "EnsureTargetUpdated"),
                           "BindProgram")
                 s2 == SendTargetSize(Gpu(ResolveProgram(s1), "BindTextures"))
             IN  With(ResolveVAO(ResolveTextures(ResolveMatrices(s2)), vertexDeclaration),
                      LAMBDA s3 : IF ~s3.result THEN s3 ELSE BindAndApply(s3)))

\* the whole function.  The checks of NAZARA_DEBUG and NAZARA_RENDERER_SAFE
\* (lines 1550-1570) are compiled in.
EnsureStateUpdate(st, vertexDeclaration) ==
    With(st, LAMBDA s :
        IF currentContext = Null \/ s.s_program = Null \/ s.s_target = Null THEN Fail(s)
        ELSE LET s1 == Gpu(Gpu([s EXCEPT !.result = TRUE], "EnsureTargetUpdated"),
                           "BindProgram")
                 s2 == SendTargetSize(Gpu(ResolveProgram(s1), "BindTextures"))
             IN  With(ResolveVAO(ResolveMatrices(ResolveTextures(s2)), vertexDeclaration),
                      LAMBDA s3 : IF ~s3.result THEN s3 ELSE BindAndApply(s3)))

\* what s_vertexBuffer->GetVertexDeclaration() can return: reading through a
\* destroyed buffer is undefined behaviour and can yield any declaration
DeclarationReads(vertexBuffer) ==
    IF vertexBuffer = Null THEN {Null}
    ELSE IF vertexBuffer \in alive THEN {VertexDeclarationOf(vertexBuffer)}
    ELSE VertexDeclarations

(***************************************************************************)
(* The draw calls.  result tells whether the draw command was issued.      *)
(***************************************************************************)
\* the draw command and the unbinding of the vertex array that follows it
IssueDraw(st, command) ==
    [(IF s_useVertexArrayObjects
          THEN Gpu(Gpu(st, command), "UnbindVertexArray")
          ELSE Gpu(st, command))
        EXCEPT !.result = TRUE]

\* DrawAfterUpdate without the test of what EnsureStateUpdate returned
DrawAfterUpdateUnchecked(st, vertexDeclaration, command) ==
    IssueDraw(EnsureStateUpdate(st, vertexDeclaration), command)

\* "if (!EnsureStateUpdate()) return;" followed by the draw command, in each
\* draw call
DrawAfterUpdate(st, vertexDeclaration, command) ==
    With(EnsureStateUpdate(st, vertexDeclaration), LAMBDA updated :
        IF ~updated.result THEN updated ELSE IssueDraw(updated, command))

\* NzRenderer::DrawFullscreenQuad (lines 348-372)
DrawFullscreenQuad(st) ==
    IF currentContext = Null THEN Fail(st)
    ELSE DrawAfterUpdate(
            SetVertexBuffer(SetIndexBuffer(EnableInstancing(st, FALSE), Null),
                            FullscreenQuadBuffer),
            VertexDeclarationOf(FullscreenQuadBuffer), "DrawArrays")

\* NzRenderer::DrawIndexedPrimitives (lines 374-424)
DrawIndexedPrimitives(st, vertexDeclaration) ==
    IF currentContext = Null \/ st.s_indexBuffer = Null THEN Fail(st)
    ELSE With(DrawAfterUpdate(EnableInstancing(st, FALSE), vertexDeclaration, "DrawElements"),
              LAMBDA drawn : IF drawn.result THEN Deref(drawn, st.s_indexBuffer) ELSE drawn)

\* NzRenderer::DrawIndexedPrimitivesInstanced (lines 426-495)
DrawIndexedPrimitivesInstanced(st, instanceCount, vertexDeclaration) ==
    IF \/ currentContext = Null
       \/ ~s_capInstancing
       \/ st.s_indexBuffer = Null
       \/ instanceCount = 0
       \/ instanceCount > MaxInstanceCount
        THEN Fail(st)
    ELSE With(DrawAfterUpdate(EnableInstancing(st, TRUE), vertexDeclaration,
                              "DrawElementsInstanced"),
              LAMBDA drawn : IF drawn.result THEN Deref(drawn, st.s_indexBuffer) ELSE drawn)

\* NzRenderer::DrawPrimitives (lines 497-525)
DrawPrimitives(st, vertexDeclaration) ==
    IF currentContext = Null THEN Fail(st)
    ELSE DrawAfterUpdate(EnableInstancing(st, FALSE), vertexDeclaration, "DrawArrays")

\* DrawPrimitivesInstanced without the check of lines 556-561
DrawPrimitivesInstancedUnbounded(st, instanceCount, vertexDeclaration) ==
    IF \/ currentContext = Null
       \/ ~s_capInstancing
       \/ instanceCount = 0
        THEN Fail(st)
    ELSE DrawAfterUpdate(EnableInstancing(st, TRUE), vertexDeclaration,
                         "DrawArraysInstanced")

\* NzRenderer::DrawPrimitivesInstanced (lines 527-576)
DrawPrimitivesInstanced(st, instanceCount, vertexDeclaration) ==
    IF \/ currentContext = Null
       \/ ~s_capInstancing
       \/ instanceCount = 0
       \/ instanceCount > MaxInstanceCount
        THEN Fail(st)
    ELSE DrawAfterUpdate(EnableInstancing(st, TRUE), vertexDeclaration,
                         "DrawArraysInstanced")

DrawCommands == {"DrawArrays", "DrawElements", "DrawArraysInstanced", "DrawElementsInstanced"}

(***************************************************************************)
(* ResourceListener::OnResourceReleased (lines 213-289)                    *)
(***************************************************************************)
\* the table without the keys that hold the resource at one of the positions
EraseKeys(table, resource, positions) ==
    [k \in {x \in DOMAIN table : \A i \in positions : x[i] # resource} |-> table[k]]

EraseContext(vaos, context) ==
    [c \in DOMAIN vaos \ {context} |-> vaos[c]]

\* OnResourceReleased with a declaration compared with the instancing
\* declaration of the key only
OnResourceReleasedInstancingOnly(st, resource, index) ==
    CASE index = "ResourceType_Context" ->
            [st EXCEPT !.s_vaos = EraseContext(@, resource)]
      [] index = "ResourceType_IndexBuffer" ->
            [st EXCEPT !.s_vaos =
                [c \in DOMAIN st.s_vaos |->
                    EraseKeys(st.s_vaos[c], resource, {1})]]
      [] index = "ResourceType_VertexBuffer" ->
            [st EXCEPT !.s_vaos =
                [c \in DOMAIN st.s_vaos |->
                    EraseKeys(st.s_vaos[c], resource, {2})]]
      [] index = "ResourceType_VertexDeclaration" ->
            [st EXCEPT !.s_vaos =
                [c \in DOMAIN st.s_vaos |->
                    EraseKeys(st.s_vaos[c], resource, {4})]]
      [] OTHER -> st

\* OnResourceReleased emptying the table of every context when a context is
\* destroyed
OnResourceReleasedErasingEveryContext(st, resource, index) ==
    CASE index = "ResourceType_Context" ->
            [st EXCEPT !.s_vaos = EmptyMap]
      [] index = "ResourceType_IndexBuffer" ->
            [st EXCEPT !.s_vaos =
                [c \in DOMAIN st.s_vaos |->
                    EraseKeys(st.s_vaos[c], resource, {1})]]
      [] index = "ResourceType_VertexBuffer" ->
            [st EXCEPT !.s_vaos =
                [c \in DOMAIN st.s_vaos |->
                    EraseKeys(st.s_vaos[c], resource, {2})]]
      [] index = "ResourceType_VertexDeclaration" ->
            [st EXCEPT !.s_vaos =
                [c \in DOMAIN st.s_vaos |->
                    EraseKeys(st.s_vaos[c], resource, {3, 4})]]
      [] OTHER -> st

OnResourceReleased(st, resource, index) ==
    CASE index = "ResourceType_Context" ->
            [st EXCEPT !.s_vaos = EraseContext(@, resource)]
      [] index = "ResourceType_IndexBuffer" ->
            [st EXCEPT !.s_vaos =
                [c \in DOMAIN st.s_vaos |->
                    EraseKeys(st.s_vaos[c], resource, {1})]]
      [] index = "ResourceType_VertexBuffer" ->
            [st EXCEPT !.s_vaos =
                [c \in DOMAIN st.s_vaos |->
                    EraseKeys(st.s_vaos[c], resource, {2})]]
      [] index = "ResourceType_VertexDeclaration" ->
            [st EXCEPT !.s_vaos =
                [c \in DOMAIN st.s_vaos |->
                    EraseKeys(st.s_vaos[c], resource, {3, 4})]]
      [] OTHER -> st

(***************************************************************************)
(* NzRenderer::Initialize, IsInitialized and Uninitialize                  *)
(* (lines 742-910, 925-928, 1471-1537).  The calls into the other modules  *)
(* and into OpenGL are recorded in ops under their names.                  *)
(***************************************************************************)
\* NzResource::RemoveResourceListener, called on a part of a key
RemoveResourceListener(st, resource) ==
    IF resource \in alive /\ resource \in ListenedResources
        THEN [st EXCEPT !.listenerRegs[resource] = IF @ > 0 THEN @ - 1 ELSE 0]
    ELSE Deref(st, resource)

\* lines 1506-1524: the listeners of one key are removed, its vertex array deleted
ReleaseVAO(st, key) ==
    With(st, LAMBDA s :
        LET s1 == IF key[1] # Null THEN RemoveResourceListener(s, key[1]) ELSE s
            s2 == RemoveResourceListener(RemoveResourceListener(s1, key[2]), key[3])
            s3 == IF key[4] # Null THEN RemoveResourceListener(s2, key[4]) ELSE s2
        IN  Gpu(s3, "DeleteVertexArrays"))

\* lines 1499-1527, for the entries << context, key >> of s_vaos still to visit
RECURSIVE ReleaseVAOs(_, _)
ReleaseVAOs(st, entries) ==
    With(st, LAMBDA s :
        IF entries = {} THEN s
        ELSE LET entry == CHOOSE e \in entries : TRUE
             IN  ReleaseVAOs(ReleaseVAO(Deref(s, entry[1]), entry[2]), entries \ {entry}))

\* lines 1479-1536: what the last Uninitialize call releases
ReleaseModule(st) ==
    With([st EXCEPT !.s_moduleReferenceCounter = 0,
                    !.s_textureUnits = << >>,
                    !.ops = @ \o << "NzLoaders_Texture_Unregister",
                                    "NzTextureSampler::Uninitialize",
                                    "NzShaderProgramManager::Uninitialize",
                                    "NzMaterial::Uninitialize",
                                    "NzDebugDrawer::Uninitialize",
                                    "s_fullscreenQuadBuffer.Reset",
                                    "s_instanceBuffer.Reset" >>],
         LAMBDA s :
            [ReleaseVAOs(s, UNION { { << c, k >> : k \in DOMAIN s.s_vaos[c] } :
                                    c \in DOMAIN s.s_vaos })
                EXCEPT !.s_vaos = EmptyMap,
                       !.ops = @ \o << "NzOpenGL::Uninitialize", "NzUtility::Uninitialize" >>])

\* Uninitialize releasing the module whenever the counter is not zero
UninitializeReleasingEachTime(st) ==
    IF st.s_moduleReferenceCounter = 0 THEN st ELSE ReleaseModule(st)

\* NzRenderer::Uninitialize (lines 1471-1537)
Uninitialize(st) ==
    IF st.s_moduleReferenceCounter # 1
        THEN (IF st.s_moduleReferenceCounter > 1
                  THEN [st EXCEPT !.s_moduleReferenceCounter = @ - 1]
              ELSE st)
    ELSE ReleaseModule(st)

\* the steps of Initialize that can fail, in the order of the code
\* (lines 750, 758, 858, 880, 888, 896)
InitializeSteps ==
    << "NzUtility::Initialize", "NzOpenGL::Initialize", "s_fullscreenQuadBuffer.Fill",
       "NzMaterial::Initialize", "NzShaderProgramManager::Initialize",
       "NzTextureSampler::Initialize" >>

\* lines 767-773: every slot holds the identity and is current
InitMatrices ==
    [t \in MatrixTypes |-> [matrix |-> Identity, updated |-> TRUE, location |-> -1]]

\* lines 765-846: the mirrored state after OpenGL is initialized
InitializeState(st) ==
    [st EXCEPT !.s_matrices = InitMatrices,
               !.s_indexBuffer = Null,
               !.s_program = Null,
               !.s_target = Null,
               !.s_states = DefaultRenderStates,
               !.s_targetSize = 0,
               !.s_textureUnits = [i \in TextureUnitIds |-> DefaultTextureUnit],
               !.s_vertexBuffer = Null,
               !.s_updateFlags = {Update_Matrices, Update_Program, Update_VAO}]

\* the steps from the i-th on; result is FALSE when the step "failing" fails
RECURSIVE InitializeFrom(_, _, _)
InitializeFrom(st, i, failing) ==
    With(st, LAMBDA s :
        IF i > Len(InitializeSteps) THEN Gpu(s, "NzLoaders_Texture_Register")
        ELSE LET step == InitializeSteps[i]
             IN  IF step = failing THEN Fail(Gpu(s, step))
                 ELSE InitializeFrom(IF step = "NzOpenGL::Initialize"
                                         THEN InitializeState(Gpu(s, step))
                                     ELSE Gpu(s, step),
                                     i + 1, failing))

\* Initialize returning false without calling Uninitialize
InitializeWithoutUninitialize(st, failing) ==
    IF st.s_moduleReferenceCounter # 0
        THEN [st EXCEPT !.s_moduleReferenceCounter = @ + 1]
    ELSE InitializeFrom([st EXCEPT !.s_moduleReferenceCounter = @ + 1], 1, failing)

\* NzRenderer::Initialize (lines 742-910); "failing" is the step that fails, if any
Initialize(st, failing) ==
    IF st.s_moduleReferenceCounter # 0
        THEN [st EXCEPT !.s_moduleReferenceCounter = @ + 1]
    ELSE With(InitializeFrom([st EXCEPT !.s_moduleReferenceCounter = @ + 1], 1, failing),
              LAMBDA s : IF s.result THEN s ELSE Fail(Uninitialize(s)))

\* NzRenderer::IsInitialized (lines 925-928)
IsInitialized(st) == [st EXCEPT !.result = (st.s_moduleReferenceCounter # 0)]

(***************************************************************************)
(* The calls of the application, as actions.  A call                       *)
(* leaving the state st is recorded in lastCall.                           *)
(***************************************************************************)
Record(name, arg, st) ==
    \E s \in {st} :
        /\ Commit(s)
        /\ lastCall' = [op |-> name, arg |-> arg, result |-> s.result]
        /\ esuRun' = IF name = "EnsureStateUpdate" /\ s.result
                         THEN (IF esuRun >= 1 THEN 2 ELSE 1)
                         ELSE 0
        /\ derivedOverridden' =
                (derivedOverridden \/ (name = "SetMatrix" /\ arg \in DerivedTypes))

Call(name, arg, st) == Record(name, arg, st) /\ UNCHANGED << currentContext, alive >>

DoSetMatrix(type, matrix) == Call("SetMatrix", type, SetMatrix(Cur, type, matrix))

DoGetMatrix(type) == Call("GetMatrix", type, GetMatrix(Cur, type))

DoSetIndexBuffer(indexBuffer) ==
    /\ indexBuffer \in alive \cup SoftwareBuffers \cup {Null}
    /\ Call("SetIndexBuffer", indexBuffer, SetIndexBuffer(Cur, indexBuffer))

DoSetVertexBuffer(vertexBuffer) ==
    /\ vertexBuffer \in alive \cup SoftwareBuffers \cup {Null}
    /\ Call("SetVertexBuffer", vertexBuffer, SetVertexBuffer(Cur, vertexBuffer))

DoEnableInstancing(instancing) ==
    Call("EnableInstancing", instancing, EnableInstancing(Cur, instancing))

DoGetInstanceBuffer == Call("GetInstanceBuffer", Null, GetInstanceBuffer(Cur))

DoSetShaderProgram(program) ==
    /\ program \in alive \cup UncompiledPrograms \cup {Null}
    /\ Call("SetShaderProgram", program, SetShaderProgram(Cur, program))

DoSetTarget(target, renderable, activated) ==
    Call("SetTarget", target, SetTarget(Cur, target, renderable, activated))

DoSetTexture(unit, texture) ==
    /\ texture \in alive \cup {Null}
    /\ Call("SetTexture", unit, SetTexture(Cur, unit, texture))

DoSetTextureSampler(unit, sampler) ==
    Call("SetTextureSampler", unit, SetTextureSampler(Cur, unit, sampler))

DoEnsureStateUpdate ==
    \E vertexDeclaration \in DeclarationReads(s_vertexBuffer) :
        Call("EnsureStateUpdate", Null, EnsureStateUpdate(Cur, vertexDeclaration))

DoDrawFullscreenQuad == Call("DrawFullscreenQuad", Null, DrawFullscreenQuad(Cur))

DoDrawIndexedPrimitives ==
    \E vertexDeclaration \in DeclarationReads(s_vertexBuffer) :
        Call("DrawIndexedPrimitives", Null, DrawIndexedPrimitives(Cur, vertexDeclaration))

DoDrawIndexedPrimitivesInstanced(instanceCount) ==
    \E vertexDeclaration \in DeclarationReads(s_vertexBuffer) :
        Call("DrawIndexedPrimitivesInstanced", instanceCount,
             DrawIndexedPrimitivesInstanced(Cur, instanceCount, vertexDeclaration))

DoDrawPrimitives ==
    \E vertexDeclaration \in DeclarationReads(s_vertexBuffer) :
        Call("DrawPrimitives", Null, DrawPrimitives(Cur, vertexDeclaration))

DoDrawPrimitivesInstanced(instanceCount) ==
    \E vertexDeclaration \in DeclarationReads(s_vertexBuffer) :
        Call("DrawPrimitivesInstanced", instanceCount,
             DrawPrimitivesInstanced(Cur, instanceCount, vertexDeclaration))

(***************************************************************************)
(* The environment: resources are destroyed, contexts become current.      *)
(***************************************************************************)
\* a buffer, a declaration or a context is destroyed: s_listener is called
\* once if it is registered with the resource
DestroyResource(resource) ==
    /\ resource \in alive \cap (ListenedResources \ {FullscreenQuadBuffer})
    /\ alive' = alive \ {resource}
    /\ currentContext' = IF currentContext = resource THEN Null ELSE currentContext
    /\ LET st == IF listenerRegs[resource] > 0
                     THEN OnResourceReleased(Cur, resource, ResourceTypeOf(resource))
                     ELSE Cur
       IN  Record("DestroyResource", resource, [st EXCEPT !.listenerRegs[resource] = 0])

\* ~NzShaderProgram calls NzRenderer::OnProgramReleased
DestroyProgram(program) ==
    /\ program \in alive \cap Programs
    /\ alive' = alive \ {program}
    /\ Record("DestroyProgram", program, OnProgramReleased(Cur, program))
    /\ UNCHANGED currentContext

\* ~NzTexture calls NzRenderer::OnTextureReleased
DestroyTexture(texture) ==
    /\ texture \in alive \cap Textures
    /\ alive' = alive \ {texture}
    /\ Record("DestroyTexture", texture, OnTextureReleased(Cur, texture))
    /\ UNCHANGED currentContext

DoSetLineWidth(width) == Call("SetLineWidth", width, SetLineWidth(Cur, width))

DoSetPointSize(size) == Call("SetPointSize", size, SetPointSize(Cur, size))

DoRendererClear(flags) ==
    \E survives \in BOOLEAN :
        Call("NzRenderer::Clear", flags, RendererClear(Cur, flags, survives))

DoInitialize(failing) == Call("Initialize", failing, Initialize(Cur, failing))

\* the last Uninitialize makes each context of s_vaos current and then not
\* current (lines 1502 and 1526)
DoUninitialize ==
    /\ Record("Uninitialize", Null, Uninitialize(Cur))
    /\ currentContext' = IF s_moduleReferenceCounter = 1 /\ DOMAIN s_vaos # {}
                             THEN Null
                         ELSE currentContext
    /\ UNCHANGED alive

DoIsInitialized == Call("IsInitialized", Null, IsInitialized(Cur))

\* NzContext::SetActive
MakeCurrent(context) ==
    /\ context \in (alive \cap Contexts) \cup {Null}
    /\ context # currentContext
    /\ currentContext' = context
    /\ Record("MakeCurrent", context, Cur)
    /\ UNCHANGED alive

(***************************************************************************)
(* NzDeferredRenderQueue (lines 2020-2245).  Its functions are operators   *)
(* from a queue record to a queue record.                                  *)
(***************************************************************************)
CurQueue ==
    [ opaqueModels |-> opaqueModels, sprites |-> sprites,
      directionalLights |-> directionalLights, pointLights |-> pointLights,
      spotLights |-> spotLights, m_forwardQueue |-> m_forwardQueue,
      queueListenerRegs |-> queueListenerRegs, derefs |-> {} ]

CommitQueue(q) ==
    /\ opaqueModels' = q.opaqueModels
    /\ sprites' = q.sprites
    /\ directionalLights' = q.directionalLights
    /\ pointLights' = q.pointLights
    /\ spotLights' = q.spotLights
    /\ m_forwardQueue' = q.m_forwardQueue
    /\ queueListenerRegs' = q.queueListenerRegs
    /\ queueDerefs' = q.derefs

\* the call reads a field of these materials and meshes (a member function
\* is called on them)
Read(q, objects) == [q EXCEPT !.derefs = @ \cup objects]

\* a lookup of the key in a std::map of the queue (insert, erase, operator[]):
\* unless the map is empty its comparator is called with the key and the
\* keys of the nodes on the way, and dereferences both of its arguments
\* (lines 2256-2264, 2296-2319).  Only the key is recorded, the nodes on the
\* way depend on the shape of the tree.
Compare(q, map, key) == IF DOMAIN map = {} THEN q ELSE Read(q, {key})

\* a call of m_forwardQueue
Forward(q, call, arg) ==
    [q EXCEPT !.m_forwardQueue = Append(@, [call |-> call, arg |-> arg])]

\* NzResource::AddResourceListener and RemoveResourceListener, for the queue
AddQueueListener(q, resource) == [q EXCEPT !.queueListenerRegs[resource] = @ + 1]

RemoveQueueListener(q, resource) ==
    [q EXCEPT !.queueListenerRegs[resource] = IF @ > 0 THEN @ - 1 ELSE 0]

\* BatchedModelContainer::mapped_type(): a tuple of two bools and two maps
DefaultBatchedModel ==
    [used |-> FALSE, enableInstancing |-> FALSE, skeletalMeshes |-> EmptyMap,
     staticMeshes |-> EmptyMap]

\* NzDeferredRenderQueue::AddDrawable (lines 2030-2033)
AddDrawable(q, drawable) == Forward(q, "AddDrawable", drawable)

\* AddLight that puts the spot lights in the list of the point lights
AddLightSpotAsPoint(q, light) ==
    IF light = Null THEN q
    ELSE Forward(
            CASE GetLightType(light) = "nzLightType_Directional" ->
                    [q EXCEPT !.directionalLights = Append(@, light)]
              [] OTHER -> [q EXCEPT !.pointLights = Append(@, light)],
            "AddLight", light)

\* NzDeferredRenderQueue::AddLight (lines 2035-2061)
AddLight(q, light) ==
    IF light = Null THEN q
    ELSE Forward(
            CASE GetLightType(light) = "nzLightType_Directional" ->
                    [q EXCEPT !.directionalLights = Append(@, light)]
              [] GetLightType(light) = "nzLightType_Point" ->
                    [q EXCEPT !.pointLights = Append(@, light)]
              [] GetLightType(light) = "nzLightType_Spot" ->
                    [q EXCEPT !.spotLights = Append(@, light)],
            "AddLight", light)

\* AddSprite that puts every drawable sprite in the sprite table
AddSpriteAlwaysBatched(q, sprite) ==
    IF sprite = Null \/ ~IsDrawable(sprite) THEN q
    ELSE LET material == SpriteMaterial(sprite)
         IN  [Compare(Read(q, {material}), q.sprites, material) EXCEPT !.sprites =
                    Put(@, material,
                        Append(IF material \in DOMAIN q.sprites
                                   THEN q.sprites[material] ELSE << >>,
                               sprite))]

\* NzDeferredRenderQueue::AddSprite (lines 2093-2114)
AddSprite(q, sprite) ==
    IF sprite = Null \/ ~IsDrawable(sprite) THEN q
    ELSE LET material == SpriteMaterial(sprite)
         IN  IF IsBlendEnabled(material)
                 THEN Forward(Read(q, {material}), "AddSprite", sprite)
             ELSE [Compare(Read(q, {material}), q.sprites, material) EXCEPT !.sprites =
                        Put(@, material,
                            Append(IF material \in DOMAIN q.sprites
                                       THEN q.sprites[material] ELSE << >>,
                                   sprite))]

\* lines 2146-2148: the entry of the material, created on first use
InsertMaterial(q, material) ==
    IF material \in DOMAIN q.opaqueModels THEN Compare(q, q.opaqueModels, material)
    ELSE AddQueueListener(
            [Compare(q, q.opaqueModels, material)
                EXCEPT !.opaqueModels = Put(@, material, DefaultBatchedModel)], material)

\* lines 2155-2159: the instances of the mesh, created on first use
InsertStaticMesh(q, material, staticMesh) ==
    IF staticMesh \in DOMAIN q.opaqueModels[material].staticMeshes
        THEN Compare(q, q.opaqueModels[material].staticMeshes, staticMesh)
    ELSE AddQueueListener(
            [Compare(q, q.opaqueModels[material].staticMeshes, staticMesh)
                EXCEPT !.opaqueModels[material].staticMeshes = Put(@, staticMesh, << >>)],
            staticMesh)

\* AddInstance with > for >= at line 2166
AddInstanceAboveThreshold(q, material, staticMesh, transformMatrix) ==
    LET instanceCount == Len(q.opaqueModels[material].staticMeshes[staticMesh]) + 1
    IN  [q EXCEPT
            !.opaqueModels[material].enableInstancing =
                IF instanceCount > NAZARA_GRAPHICS_INSTANCING_MIN_INSTANCES_COUNT
                    THEN TRUE ELSE @,
            !.opaqueModels[material].staticMeshes[staticMesh] =
                Append(@, [transformMatrix |-> transformMatrix])]

\* AddInstance with the flag assigned the result of the comparison of line 2166
AddInstanceAssigningFlag(q, material, staticMesh, transformMatrix) ==
    LET instanceCount == Len(q.opaqueModels[material].staticMeshes[staticMesh]) + 1
    IN  [q EXCEPT
            !.opaqueModels[material].enableInstancing =
                instanceCount >= NAZARA_GRAPHICS_INSTANCING_MIN_INSTANCES_COUNT,
            !.opaqueModels[material].staticMeshes[staticMesh] =
                Append(@, [transformMatrix |-> transformMatrix])]

\* AddInstance with the new instance put in front of the list
AddInstancePrepending(q, material, staticMesh, transformMatrix) ==
    LET instanceCount == Len(q.opaqueModels[material].staticMeshes[staticMesh]) + 1
    IN  [q EXCEPT
            !.opaqueModels[material].enableInstancing =
                IF instanceCount >= NAZARA_GRAPHICS_INSTANCING_MIN_INSTANCES_COUNT
                    THEN TRUE ELSE @,
            !.opaqueModels[material].staticMeshes[staticMesh] =
                << [transformMatrix |-> transformMatrix] >> \o @]

\* lines 2161-2171: one more instance of the mesh
AddInstance(q, material, staticMesh, transformMatrix) ==
    LET instanceCount == Len(q.opaqueModels[material].staticMeshes[staticMesh]) + 1
    IN  [q EXCEPT
            !.opaqueModels[material].enableInstancing =
                IF instanceCount >= NAZARA_GRAPHICS_INSTANCING_MIN_INSTANCES_COUNT
                    THEN TRUE ELSE @,
            !.opaqueModels[material].staticMeshes[staticMesh] =
                Append(@, [transformMatrix |-> transformMatrix])]

\* AddSubMesh that batches a skeletal sub-mesh as it does a static one
AddSubMeshBatchingSkeletal(q, material, subMesh, transformMatrix) ==
    IF IsBlendEnabled(material)
        THEN Forward(Read(q, {subMesh, material}), "AddSubMesh",
                     << material, subMesh, transformMatrix >>)
    ELSE With(InsertMaterial(Read(q, {subMesh, material}), material), LAMBDA q1 :
            With(InsertStaticMesh([q1 EXCEPT !.opaqueModels[material].used = TRUE],
                                  material, subMesh),
                 LAMBDA q2 : AddInstance(q2, material, subMesh, transformMatrix)))

\* NzDeferredRenderQueue::AddSubMesh (lines 2116-2177)
AddSubMesh(q, material, subMesh, transformMatrix) ==
    IF GetAnimationType(subMesh) = "nzAnimationType_Skeletal" THEN Read(q, {subMesh})
    ELSE IF IsBlendEnabled(material)
        THEN Forward(Read(q, {subMesh, material}), "AddSubMesh",
                     << material, subMesh, transformMatrix >>)
    ELSE With(InsertMaterial(Read(q, {subMesh, material}), material), LAMBDA q1 :
            With(InsertStaticMesh([q1 EXCEPT !.opaqueModels[material].used = TRUE],
                                  material, subMesh),
                 LAMBDA q2 : AddInstance(q2, material, subMesh, transformMatrix)))

\* lines 2084-2090: the sub-meshes of the model from position i
RECURSIVE AddSubMeshesFrom(_, _, _)
AddSubMeshesFrom(q, model, i) ==
    With(q, LAMBDA q1 :
        IF i > Len(ModelSubMeshes(model)) THEN q1
        ELSE AddSubMeshesFrom(
                AddSubMesh(q1, ModelSubMeshes(model)[i].material,
                           ModelSubMeshes(model)[i].subMesh, ModelTransform(model)),
                model, i + 1))

\* NzDeferredRenderQueue::AddModel (lines 2063-2091)
AddModel(q, model) ==
    IF model = Null \/ ~IsDrawable(model) THEN q
    ELSE AddSubMeshesFrom(q, model, 1)

\* the listeners that lines 2187-2205 remove: one per material and one per
\* mesh of each material
RemoveListenersOf(regs, models) ==
    [r \in DOMAIN regs |->
        LET removed == (IF r \in DOMAIN models THEN 1 ELSE 0)
                     + Cardinality({ m \in DOMAIN models :
                                        r \in DOMAIN models[m].skeletalMeshes
                                                \cup DOMAIN models[m].staticMeshes })
        IN  IF regs[r] > removed THEN regs[r] - removed ELSE 0]

\* the materials and meshes that lines 2187-2205 call RemoveResourceListener on
ListenedBy(models) ==
    DOMAIN models
        \cup UNION { DOMAIN models[m].skeletalMeshes \cup DOMAIN models[m].staticMeshes :
                        m \in DOMAIN models }

\* Clear that always asks the forward queue for a full clear
ClearForwardingFully(q, fully) ==
    With([q EXCEPT !.directionalLights = << >>, !.pointLights = << >>,
                   !.spotLights = << >>],
         LAMBDA q1 :
            Forward(IF fully
                        THEN [q1 EXCEPT
                                !.derefs = @ \cup ListenedBy(q1.opaqueModels),
                                !.queueListenerRegs = RemoveListenersOf(@, q1.opaqueModels),
                                !.opaqueModels = EmptyMap,
                                !.sprites = EmptyMap]
                        ELSE q1,
                    "Clear", TRUE))

\* NzDeferredRenderQueue::Clear (lines 2179-2212)
Clear(q, fully) ==
    With([q EXCEPT !.directionalLights = << >>, !.pointLights = << >>,
                   !.spotLights = << >>],
         LAMBDA q1 :
            Forward(IF fully
                        THEN [q1 EXCEPT
                                !.derefs = @ \cup ListenedBy(q1.opaqueModels),
                                !.queueListenerRegs = RemoveListenersOf(@, q1.opaqueModels),
                                !.opaqueModels = EmptyMap,
                                !.sprites = EmptyMap]
                        ELSE q1,
                    "Clear", fully))

\* the map without the key
Erase(f, k) == [x \in DOMAIN f \ {k} |-> f[x]]

\* the lookup of the key in each of the maps (lines 2224-2225, 2232-2233)
CompareInEach(q, maps, key) ==
    IF \A map \in maps : DOMAIN map = {} THEN q ELSE Read(q, {key})

\* OnResourceDestroy that empties the entry of the material and keeps it
OnResourceDestroyKeepingEntry(q, resource, index) ==
    CASE index = "ResourceType_Material" ->
            IF resource \in DOMAIN q.opaqueModels
                THEN [q EXCEPT !.opaqueModels[resource].skeletalMeshes = EmptyMap,
                               !.opaqueModels[resource].staticMeshes = EmptyMap]
                ELSE q
      [] index = "ResourceType_SkeletalMesh" ->
            [q EXCEPT !.opaqueModels =
                [m \in DOMAIN q.opaqueModels |->
                    [q.opaqueModels[m] EXCEPT !.skeletalMeshes = Erase(@, resource)]]]
      [] index = "ResourceType_StaticMesh" ->
            [q EXCEPT !.opaqueModels =
                [m \in DOMAIN q.opaqueModels |->
                    [q.opaqueModels[m] EXCEPT !.staticMeshes = Erase(@, resource)]]]
      [] OTHER -> q

\* NzDeferredRenderQueue::OnResourceDestroy (lines 2214-2240)
OnResourceDestroy(q, resource, index) ==
    CASE index = "ResourceType_Material" ->
            [Compare(q, q.opaqueModels, resource) EXCEPT !.opaqueModels = Erase(@, resource)]
      [] index = "ResourceType_SkeletalMesh" ->
            [CompareInEach(q, { q.opaqueModels[m].skeletalMeshes : m \in DOMAIN q.opaqueModels },
                           resource) EXCEPT !.opaqueModels =
                [m \in DOMAIN q.opaqueModels |->
                    [q.opaqueModels[m] EXCEPT !.skeletalMeshes = Erase(@, resource)]]]
      [] index = "ResourceType_StaticMesh" ->
            [CompareInEach(q, { q.opaqueModels[m].staticMeshes : m \in DOMAIN q.opaqueModels },
                           resource) EXCEPT !.opaqueModels =
                [m \in DOMAIN q.opaqueModels |->
                    [q.opaqueModels[m] EXCEPT !.staticMeshes = Erase(@, resource)]]]
      [] OTHER -> q

QueueResourceTypeOf(resource) ==
    IF resource \in Materials THEN "ResourceType_Material"
    ELSE IF resource \in SkeletalMeshes THEN "ResourceType_SkeletalMesh"
    ELSE "ResourceType_StaticMesh"

(***************************************************************************)
(* The comparators of the maps of the queue (lines 2247-2328).  They read  *)
(* the fields of the materials and meshes they compare: fields is a        *)
(* function from the objects to records of what their getters return.      *)
(***************************************************************************)
\* the objects in the order of their addresses, the null pointer first
AddressOrder ==
    << Null, "prog1", "prog2", "tex1", "tex2", "buf1", "buf2", "matA", "matB", "matBlend",
       "meshA", "meshB", "skelA", "skelB" >>

AddressOf(object) == CHOOSE i \in DOMAIN AddressOrder : AddressOrder[i] = object

\* p1 < p2 on two pointers
PointerLess(p1, p2) == AddressOf(p1) < AddressOf(p2)

\* lines 2254-2268 and 2277-2291: the loop on possibleFlags from position i, then
\* the diffuse maps, then the materials themselves
RECURSIVE CompareMaterialsFrom(_, _, _, _, _)
CompareMaterialsFrom(fields, possibleFlags, i, mat1, mat2) ==
    IF i <= Len(possibleFlags)
        THEN LET program1 == fields[mat1].programs[possibleFlags[i]]
                 program2 == fields[mat2].programs[possibleFlags[i]]
             IN  IF program1 # program2 THEN PointerLess(program1, program2)
                 ELSE CompareMaterialsFrom(fields, possibleFlags, i + 1, mat1, mat2)
    ELSE LET diffuseMap1 == fields[mat1].diffuseMap
             diffuseMap2 == fields[mat2].diffuseMap
         IN  IF diffuseMap1 # diffuseMap2 THEN PointerLess(diffuseMap1, diffuseMap2)
             ELSE PointerLess(mat1, mat2)

\* the comparator without the comparison of the materials themselves
BatchedModelMaterialComparatorOnFields(fields, mat1, mat2) ==
    /\ fields[mat1] # fields[mat2]
    /\ CompareMaterialsFrom(
            fields, << "nzShaderFlags_Deferred", "nzShaderFlags_Deferred_Instancing" >>, 1,
            mat1, mat2)

\* BatchedModelMaterialComparator::operator() (lines 2247-2269)
BatchedModelMaterialComparator(fields, mat1, mat2) ==
    CompareMaterialsFrom(
        fields, << "nzShaderFlags_Deferred", "nzShaderFlags_Deferred_Instancing" >>, 1,
        mat1, mat2)

\* BatchedSpriteMaterialComparator::operator() (lines 2271-2292)
BatchedSpriteMaterialComparator(fields, mat1, mat2) ==
    CompareMaterialsFrom(fields, << "nzShaderFlags_Deferred" >>, 1, mat1, mat2)

\* (iBuffer) ? iBuffer->GetBuffer() : nullptr (lines 2296-2300, 2310-2314)
IndexStorage(fields, subMesh) ==
    IF fields[subMesh].indexBuffer = Null THEN Null ELSE fields[subMesh].indexStorage

\* BatchedSkeletalMeshComparator::operator() (lines 2294-2306).  iBuffer2 is
\* read from subMesh1 (line 2299) and line 2305 compares buffer2 with itself.
BatchedSkeletalMeshComparator(fields, subMesh1, subMesh2) ==
    LET buffer1 == IndexStorage(fields, subMesh1)
        buffer2 == IndexStorage(fields, subMesh1)
    IN  IF buffer1 = buffer2 THEN PointerLess(subMesh1, subMesh2)
        ELSE PointerLess(buffer2, buffer2)

\* BatchedStaticMeshComparator::operator() (lines 2308-2328)
BatchedStaticMeshComparator(fields, subMesh1, subMesh2) ==
    LET buffer1 == IndexStorage(fields, subMesh1)
        buffer2 == IndexStorage(fields, subMesh2)
    IN  IF buffer1 = buffer2
            THEN LET vertexBuffer1 == fields[subMesh1].vertexStorage
                     vertexBuffer2 == fields[subMesh2].vertexStorage
                 IN  IF vertexBuffer1 = vertexBuffer2 THEN PointerLess(subMesh1, subMesh2)
                     ELSE PointerLess(vertexBuffer1, vertexBuffer2)
        ELSE PointerLess(buffer1, buffer2)

(***************************************************************************)
(* The calls of the render queue, as actions                               *)
(***************************************************************************)
QueueCall(name, arg, q) ==
    /\ \E q1 \in {q} : CommitQueue(q1)
    /\ lastCall' = [op |-> name, arg |-> arg, result |-> TRUE]
    /\ UNCHANGED << rendererVars, currentContext, listenerRegs, glVaoNames, ops, esuRun,
                    useAfterFree, derivedOverridden >>

\* the caller passes live objects: an identity that was destroyed names a new
\* object, allocated at the address of the destroyed one
Allocated(resources) == alive' = alive \cup resources /\ UNCHANGED destroyed

DoAddDrawable(drawable) ==
    QueueCall("AddDrawable", drawable, AddDrawable(CurQueue, drawable)) /\ Allocated({})

DoAddLight(light) ==
    QueueCall("AddLight", light, AddLight(CurQueue, light)) /\ Allocated({})

DoAddModel(model) ==
    /\ QueueCall("AddModel", model, AddModel(CurQueue, model))
    /\ Allocated(IF model = Null \/ ~IsDrawable(model) THEN {}
                 ELSE UNION { {ModelSubMeshes(model)[i].subMesh,
                               ModelSubMeshes(model)[i].material} :
                                i \in DOMAIN ModelSubMeshes(model) })

DoAddSprite(sprite) ==
    /\ QueueCall("AddSprite", sprite, AddSprite(CurQueue, sprite))
    /\ Allocated(IF sprite = Null \/ ~IsDrawable(sprite) THEN {}
                 ELSE {SpriteMaterial(sprite)})

DoAddSubMesh(material, subMesh, transformMatrix) ==
    /\ QueueCall("AddSubMesh",
                 [material |-> material, subMesh |-> subMesh,
                  transformMatrix |-> transformMatrix],
                 AddSubMesh(CurQueue, material, subMesh, transformMatrix))
    /\ Allocated({material, subMesh})

DoClear(fully) == QueueCall("Clear", fully, Clear(CurQueue, fully)) /\ Allocated({})

\* a material or a mesh is destroyed: the queue is called once if it is
\* registered with the resource, and is no longer a listener of it (line 2239)
DestroyQueueResource(resource) ==
    /\ resource \in alive \cap QueueResources
    /\ alive' = alive \ {resource}
    /\ destroyed' = destroyed \cup {resource}
    /\ QueueCall("DestroyQueueResource", resource,
                 [(IF queueListenerRegs[resource] > 0
                       THEN OnResourceDestroy(CurQueue, resource,
                                              QueueResourceTypeOf(resource))
                       ELSE CurQueue)
                    EXCEPT !.queueListenerRegs[resource] = 0])

\* a call of a comparator on two objects with the given fields
Compared(name, fields, first, second, result) ==
    /\ lastCall' = [op |-> name,
                    arg |-> [fields |-> fields, first |-> first, second |-> second],
                    result |-> result]
    /\ UNCHANGED << rendererVars, envVars, queueVars, ops, esuRun, useAfterFree,
                    derivedOverridden >>

DoCompareModelMaterials(fields, mat1, mat2) ==
    Compared("BatchedModelMaterialComparator", fields, mat1, mat2,
             BatchedModelMaterialComparator(fields, mat1, mat2))

DoCompareSpriteMaterials(fields, mat1, mat2) ==
    Compared("BatchedSpriteMaterialComparator", fields, mat1, mat2,
             BatchedSpriteMaterialComparator(fields, mat1, mat2))

DoCompareSkeletalMeshes(fields, subMesh1, subMesh2) ==
    Compared("BatchedSkeletalMeshComparator", fields, subMesh1, subMesh2,
             BatchedSkeletalMeshComparator(fields, subMesh1, subMesh2))

DoCompareStaticMeshes(fields, subMesh1, subMesh2) ==
    Compared("BatchedStaticMeshComparator", fields, subMesh1, subMesh2,
             BatchedStaticMeshComparator(fields, subMesh1, subMesh2))

\* the queue after its constructor (lines 2020-2023)
QueueConstructed ==
    /\ opaqueModels = EmptyMap
    /\ sprites = EmptyMap
    /\ directionalLights = << >>
    /\ pointLights = << >>
    /\ spotLights = << >>
    /\ m_forwardQueue = << >>
    /\ queueListenerRegs = [r \in QueueResources |-> 0]
    /\ destroyed = {}
    /\ queueDerefs = {}

(***************************************************************************)
(* The state after NzRenderer::Initialize (lines 767-773 and 836-846),     *)
(* possibly followed by first calls of SetShaderProgram, SetTarget,        *)
(* SetIndexBuffer and SetVertexBuffer, which leave the flags of Initialize *)
(* as they are.  The capabilities are those of the OpenGL implementation.  *)
(***************************************************************************)
AllResources ==
    ListenedResources \cup Programs \cup Textures \cup Targets \cup QueueResources

InitRenderer(programs, targets, indexBuffers, vertexBuffers, samplers, vaoSupport, instancing) ==
    /\ s_matrices = InitMatrices
    /\ s_updateFlags = {Update_Matrices, Update_Program, Update_VAO}
    /\ s_program \in programs
    /\ s_target \in targets
    /\ s_targetSize = 0
    /\ s_textureUnits = [i \in TextureUnitIds |-> DefaultTextureUnit]
    /\ s_dirtyTextureUnits = {}
    /\ s_indexBuffer \in indexBuffers
    /\ s_vertexBuffer \in vertexBuffers
    /\ s_instancing = FALSE
    /\ s_instancingDeclaration = Null
    /\ s_vaos = EmptyMap
    /\ s_currentVAO = 0
    /\ s_useSamplerObjects \in samplers
    /\ s_useVertexArrayObjects \in vaoSupport
    /\ s_capInstancing \in instancing
    /\ s_moduleReferenceCounter = 1
    /\ s_states = DefaultRenderStates
    /\ currentContext = "ctx1"
    /\ alive = AllResources
    /\ listenerRegs = [r \in ListenedResources |-> 0]
    /\ glVaoNames = [c \in Contexts |-> 0]
    /\ ops = << >>
    /\ lastCall = [op |-> "Initialize", arg |-> Null, result |-> TRUE]
    /\ esuRun = 0
    /\ useAfterFree = FALSE
    /\ derivedOverridden = FALSE
    /\ calls = 0
    /\ QueueConstructed

(***************************************************************************)
(* SpecMatrix: the matrix slots alone, every SetMatrix and GetMatrix call. *)
(***************************************************************************)
\* an invertible matrix, another one that does not commute with it, and a
\* singular one
MatA == <<1, 1, 0, 1>>
MatB == <<0, 1, 1, 0>>
MatS == <<1, 0, 0, 0>>

MatrixInputs == {MatA, MatB, MatS}

MaxMatrixCalls == 3

InitMatrix == InitRenderer({Null}, {Null}, {Null}, {Null}, {TRUE}, {TRUE}, {TRUE})

NextMatrix ==
    \/ Tick(MaxMatrixCalls) /\ \E type \in MatrixTypes, matrix \in MatrixInputs :
                                    DoSetMatrix(type, matrix)
    \/ Tick(MaxMatrixCalls) /\ \E type \in MatrixTypes : DoGetMatrix(type)

SpecMatrix == InitMatrix /\ [][NextMatrix]_vars

(***************************************************************************)
(* SpecUpdate: the setters, the reconciliation and the draw calls, in one  *)
(* context, with programs and textures released along the way.             *)
(***************************************************************************)
MaxUpdateCalls == 3

InitUpdate ==
    InitRenderer({Null, "prog1"}, {Null, "target1"}, {Null}, {Null, "vb1"},
                 BOOLEAN, BOOLEAN, BOOLEAN)

NextUpdate ==
    \/ Tick(MaxUpdateCalls) /\ \E program \in {Null, "prog2", "progBad"} :
                                    DoSetShaderProgram(program)
    \/ Tick(MaxUpdateCalls) /\ \E target \in {Null, "target2"}, ok \in BOOLEAN :
                                    DoSetTarget(target, ok, TRUE)
    \/ Tick(MaxUpdateCalls) /\ \E indexBuffer \in {Null, "ib1", "ibSoft"} :
                                    DoSetIndexBuffer(indexBuffer)
    \/ Tick(MaxUpdateCalls) /\ \E vertexBuffer \in {Null, "vb1", "vbSoft"} :
                                    DoSetVertexBuffer(vertexBuffer)
    \/ Tick(MaxUpdateCalls) /\ \E unit \in {0, s_maxTextureUnit}, texture \in {Null, "tex2"} :
                                    DoSetTexture(unit, texture)
    \/ Tick(MaxUpdateCalls) /\ \E unit \in {0, s_maxTextureUnit}, sampler \in SamplerInputs :
                                    DoSetTextureSampler(unit, sampler)
    \/ Tick(MaxUpdateCalls) /\ \E type \in {"View"}, matrix \in {MatA} :
                                    DoSetMatrix(type, matrix)
    \/ Tick(MaxUpdateCalls) /\ \E instancing \in BOOLEAN : DoEnableInstancing(instancing)
    \/ Tick(MaxUpdateCalls) /\ \E width \in {0, 2} : DoSetLineWidth(width)
    \/ Tick(MaxUpdateCalls) /\ \E size \in {-1, 2} : DoSetPointSize(size)
    \/ Tick(MaxUpdateCalls) /\ \E flags \in {0, 1} : DoRendererClear(flags)
    \/ Tick(MaxUpdateCalls) /\ DoGetInstanceBuffer
    \/ Tick(MaxUpdateCalls) /\ DoEnsureStateUpdate
    \/ Tick(MaxUpdateCalls) /\ DoDrawFullscreenQuad
    \/ Tick(MaxUpdateCalls) /\ DoDrawIndexedPrimitives
    \/ Tick(MaxUpdateCalls) /\ \E instanceCount \in {0, 1, MaxInstanceCount + 1} :
                                    DoDrawIndexedPrimitivesInstanced(instanceCount)
    \/ Tick(MaxUpdateCalls) /\ DoDrawPrimitives
    \/ Tick(MaxUpdateCalls) /\ \E instanceCount \in {0, 1, MaxInstanceCount + 1} :
                                    DoDrawPrimitivesInstanced(instanceCount)
    \/ Tick(MaxUpdateCalls) /\ \E program \in {"prog1"} : DestroyProgram(program)
    \/ Tick(MaxUpdateCalls) /\ \E texture \in {"tex2"} : DestroyTexture(texture)
    \/ Tick(MaxUpdateCalls) /\ MakeCurrent(Null)

SpecUpdate == InitUpdate /\ [][NextUpdate]_vars

(***************************************************************************)
(* SpecVAO: the vertex array table, with two contexts, the buffers and the *)
(* declarations destroyed along the way.                                   *)
(***************************************************************************)
MaxVAOCalls == 4

InitVAO ==
    InitRenderer({"prog1"}, {"target1"}, {Null, "ib1"}, {"vb1"}, {TRUE}, BOOLEAN, {TRUE})

NextVAO ==
    \/ Tick(MaxVAOCalls) /\ \E indexBuffer \in {Null, "ib1"} : DoSetIndexBuffer(indexBuffer)
    \/ Tick(MaxVAOCalls) /\ \E vertexBuffer \in {"vb1", "vb2"} : DoSetVertexBuffer(vertexBuffer)
    \/ Tick(MaxVAOCalls) /\ DoEnableInstancing(TRUE)
    \/ Tick(MaxVAOCalls) /\ DoGetInstanceBuffer
    \/ Tick(MaxVAOCalls) /\ DoEnsureStateUpdate
    \/ Tick(MaxVAOCalls) /\ DoDrawFullscreenQuad
    \/ Tick(MaxVAOCalls) /\ DoDrawPrimitives
    \/ Tick(MaxVAOCalls) /\ \E context \in Contexts : MakeCurrent(context)
    \/ Tick(MaxVAOCalls) /\ \E resource \in ListenedResources : DestroyResource(resource)

SpecVAO == InitVAO /\ [][NextVAO]_vars

(***************************************************************************)
(* SpecModule: the module initialized, released and initialized again,     *)
(* with any step of the initialization failing, and a vertex array created *)
(* in between by a draw.                                                   *)
(***************************************************************************)
MaxModuleCalls == 5

InitModule == InitRenderer({Null}, {Null}, {Null}, {Null}, {TRUE}, {TRUE}, {TRUE})

NextModule ==
    \/ Tick(MaxModuleCalls) /\ \E failing \in { InitializeSteps[i] : i \in DOMAIN InitializeSteps } \cup {Null} :
                                    DoInitialize(failing)
    \/ Tick(MaxModuleCalls) /\ DoUninitialize
    \/ Tick(MaxModuleCalls) /\ DoIsInitialized
    \/ Tick(MaxModuleCalls) /\ s_moduleReferenceCounter > 0 /\ DoSetShaderProgram("prog1")
    \/ Tick(MaxModuleCalls) /\ s_moduleReferenceCounter > 0 /\ DoSetTarget("target1", TRUE, TRUE)
    \/ Tick(MaxModuleCalls) /\ s_moduleReferenceCounter > 0 /\ DoDrawFullscreenQuad
    \/ Tick(MaxModuleCalls) /\ s_moduleReferenceCounter > 0 /\ DoSetTexture(0, "tex2")
    \/ Tick(MaxModuleCalls) /\ s_moduleReferenceCounter > 0 /\ \E sampler \in SamplerInputs :
                                                                    DoSetTextureSampler(0, sampler)
    \/ Tick(MaxModuleCalls) /\ s_moduleReferenceCounter > 0 /\ DoEnsureStateUpdate

SpecModule == InitModule /\ [][NextModule]_vars

(***************************************************************************)
(* SpecQueue: the submissions to the render queue, its clearing and the    *)
(* destruction of materials and meshes.                                    *)
(***************************************************************************)
MaxQueueCalls == 5

InitQueue == InitRenderer({Null}, {Null}, {Null}, {Null}, {TRUE}, {TRUE}, {TRUE})

\* what AddSubMesh is called with
SubMeshInputs ==
    { << "matA", "meshA", "T1" >>, << "matA", "meshA", "T2" >>, << "matA", "meshB", "T1" >>,
      << "matB", "meshA", "T2" >>, << "matBlend", "meshA", "T1" >>, << "matA", "skelA", "T1" >> }

NextQueue ==
    \/ Tick(MaxQueueCalls) /\ \E input \in SubMeshInputs :
                                    DoAddSubMesh(input[1], input[2], input[3])
    \/ Tick(MaxQueueCalls) /\ \E model \in Models \cup {Null} : DoAddModel(model)
    \/ Tick(MaxQueueCalls) /\ \E sprite \in Sprites \cup {Null} : DoAddSprite(sprite)
    \/ Tick(MaxQueueCalls) /\ \E light \in Lights \cup {Null} : DoAddLight(light)
    \/ Tick(MaxQueueCalls) /\ \E drawable \in Drawables : DoAddDrawable(drawable)
    \/ Tick(MaxQueueCalls) /\ \E fully \in BOOLEAN : DoClear(fully)
    \/ Tick(MaxQueueCalls) /\ \E resource \in {"matA", "meshA", "meshB"} :
                                    DestroyQueueResource(resource)

SpecQueue == InitQueue /\ [][NextQueue]_vars

(***************************************************************************)
(* SpecCompare: the comparators of the queue's maps, called on materials   *)
(* and meshes whose fields are drawn from small sets.                      *)
(***************************************************************************)
MaxCompareCalls == 1

\* what GetShaderProgram and GetDiffuseMap return for a material
MaterialFieldsOf(deferred, instancing, diffuseMap) ==
    [programs |-> [flag \in {"nzShaderFlags_Deferred", "nzShaderFlags_Deferred_Instancing"} |->
                        IF flag = "nzShaderFlags_Deferred" THEN deferred ELSE instancing],
     diffuseMap |-> diffuseMap]

MaterialFieldValues ==
    { MaterialFieldsOf(Null, Null, Null), MaterialFieldsOf("prog1", Null, Null),
      MaterialFieldsOf(Null, "prog1", Null), MaterialFieldsOf(Null, Null, "tex1"),
      MaterialFieldsOf("prog1", "prog1", "tex1") }

\* what GetIndexBuffer returns for a sub-mesh, and what GetBuffer returns for
\* its index buffer (when it has one) and for its vertex buffer
MeshFieldValues ==
    { [indexBuffer |-> Null, indexStorage |-> Null, vertexStorage |-> storage] :
        storage \in {"buf1", "buf2"} }
    \cup { [indexBuffer |-> "ib1", indexStorage |-> indexStorage, vertexStorage |-> storage] :
            indexStorage \in {"buf1", "buf2"}, storage \in {"buf1", "buf2"} }

NextCompare ==
    \/ Tick(MaxCompareCalls) /\ \E fields \in [Materials -> MaterialFieldValues] :
            \E mat1 \in Materials, mat2 \in Materials :
                DoCompareModelMaterials(fields, mat1, mat2)
    \/ Tick(MaxCompareCalls) /\ \E fields \in [Materials -> MaterialFieldValues] :
            \E mat1 \in Materials, mat2 \in Materials :
                DoCompareSpriteMaterials(fields, mat1, mat2)
    \/ Tick(MaxCompareCalls) /\ \E fields \in [SkeletalMeshes -> MeshFieldValues] :
            \E subMesh1 \in SkeletalMeshes, subMesh2 \in SkeletalMeshes :
                DoCompareSkeletalMeshes(fields, subMesh1, subMesh2)
    \/ Tick(MaxCompareCalls) /\ \E fields \in [StaticMeshes -> MeshFieldValues] :
            \E subMesh1 \in StaticMeshes, subMesh2 \in StaticMeshes :
                DoCompareStaticMeshes(fields, subMesh1, subMesh2)

SpecCompare == InitQueue /\ [][NextCompare]_vars

\* ======================= CLAIMS =======================

(***************************************************************************)
(* The derivation graph of the matrix slots, as UpdateMatrix computes them *)
(* (lines 1910-1989).                                                      *)
(***************************************************************************)
InverseTypes ==
    {"InvProjection", "InvView", "InvViewProj", "InvWorld", "InvWorldView",
     "InvWorldViewProj"}

ForwardOf(inverse) ==
    CASE inverse = "InvProjection"    -> "Projection"
      [] inverse = "InvView"          -> "View"
      [] inverse = "InvViewProj"      -> "ViewProj"
      [] inverse = "InvWorld"         -> "World"
      [] inverse = "InvWorldView"     -> "WorldView"
      [] inverse = "InvWorldViewProj" -> "WorldViewProj"

DependsOn(type) ==
    CASE type = "ViewProj"      -> {"View", "Projection"}
      [] type = "WorldView"     -> {"World", "View"}
      [] type = "WorldViewProj" -> {"WorldView", "Projection"}
      [] type \in InverseTypes  -> {ForwardOf(type)}
      [] OTHER                  -> {}

RECURSIVE BaseDependencies(_)
BaseDependencies(type) ==
    IF type \in BaseTypes THEN {type}
    ELSE UNION { BaseDependencies(d) : d \in DependsOn(type) }

\* the derived slots that transitively depend on a base slot
Dependents(base) == { t \in DerivedTypes : base \in BaseDependencies(t) }

\* the value of a slot computed from the Projection, View and World values of ms
RECURSIVE ValueFromBases(_, _)
ValueFromBases(ms, type) ==
    CASE type \in BaseTypes -> ms[type].matrix
      [] type = "ViewProj" -> Concatenate(ms["View"].matrix, ms["Projection"].matrix)
      [] type = "WorldView" -> ConcatenateAffine(ms["World"].matrix, ms["View"].matrix)
      [] type = "WorldViewProj" ->
            Concatenate(ValueFromBases(ms, "WorldView"), ms["Projection"].matrix)
      [] type \in InverseTypes -> InverseOf(ValueFromBases(ms, ForwardOf(type)))

Computable(ms, type) ==
    type \in InverseTypes => InverseExists(ValueFromBases(ms, ForwardOf(type)))

\* C1: as long as only base slots are written, GetMatrix on a derived slot
\* returns the value computed from the current Projection, View and World
\* (an inverse: whenever the forward matrix is invertible).
C1_DerivedReadIsCurrent ==
    ( /\ lastCall.op = "GetMatrix"
      /\ lastCall.arg \in DerivedTypes
      /\ ~derivedOverridden
      /\ Computable(s_matrices, lastCall.arg) )
    => lastCall.result = ValueFromBases(s_matrices, lastCall.arg)

\* C2: SetMatrix on a base slot B clears the "updated" flag of exactly the
\* derived slots that transitively depend on B, and leaves the flag of every
\* other slot as it was.
C2_SetBaseClearsExactlyDependents ==
    [][ ( /\ calls' # calls
          /\ lastCall'.op = "SetMatrix"
          /\ lastCall'.arg \in BaseTypes )
        => \A t \in MatrixTypes \ {lastCall'.arg} :
              s_matrices'[t].updated =
                  IF t \in Dependents(lastCall'.arg) THEN FALSE ELSE s_matrices[t].updated
      ]_vars

(***************************************************************************)
(* Reconciliation and draw calls (SpecUpdate)                              *)
(***************************************************************************)
OpsOf(log) == { log[i] : i \in DOMAIN log }

\* the GPU operations by the category they belong to
TextureOps ==
    {"BindTextures", "BindTextureUnit", "EnsureMipmapsUpdate", "SamplerBind", "SamplerApply",
     "BindTexture"}
MatrixOps == {"SendMatrix"}
VertexAttributeOps ==
    {"BindBuffer", "VertexAttribPointer", "VertexAttribDivisor", "DisableVertexAttribArray"}
VertexArrayOps == {"GenVertexArrays", "BindVertexArray", "UnbindVertexArray"}

\* the operations that resolve a dirty category, as opposed to the bindings
\* every reconciliation repeats (lines 1851-1866 and the program's own
\* BindTextures)
TextureUpdateOps == {"BindTextureUnit", "EnsureMipmapsUpdate", "SamplerBind", "SamplerApply"}

SecondReconciliation == lastCall.op = "EnsureStateUpdate" /\ esuRun = 2

\* C3 as stated: the second of two successful reconciliations in a row leaves
\* the dirty bitmask empty and performs no texture, matrix, vertex-attribute
\* or vertex-array GPU operation.
C3_SecondUpdateDoesNothing ==
    SecondReconciliation =>
        /\ s_updateFlags = {}
        /\ OpsOf(ops) \cap (TextureOps \cup MatrixOps \cup VertexAttributeOps
                              \cup VertexArrayOps) = {}

\* C3 amended: the second of two successful reconciliations in a row updates
\* no texture unit, sends no matrix and no target size and creates no vertex
\* array; with vertex array objects it programs no vertex attribute and
\* leaves the bitmask empty, without them the bitmask is exactly Update_VAO
\* and the attributes are specified again.
C3_SecondUpdateResolvesNothing ==
    SecondReconciliation =>
        /\ OpsOf(ops) \cap (TextureUpdateOps \cup MatrixOps
                              \cup {"SendVector", "GenVertexArrays"}) = {}
        /\ s_useVertexArrayObjects =>
                /\ s_updateFlags = {}
                /\ OpsOf(ops) \cap VertexAttributeOps = {}
        /\ ~s_useVertexArrayObjects =>
                /\ s_updateFlags = {Update_VAO}
                /\ "VertexAttribPointer" \in OpsOf(ops)

\* a second reconciliation in a row with a texture bound and matrices to send
C3_Witness ==
    /\ SecondReconciliation
    /\ \E i \in TextureUnitIds : s_textureUnits[i].texture # Null
    /\ \E t \in MatrixTypes : s_matrices[t].location # -1

\* C4: a failing EnsureStateUpdate leaves the dirty bitmask, the set of dirty
\* texture units and the flags of every texture unit and matrix slot as they
\* were before the call.
C4_FailureLeavesDirtyState ==
    [][ ( /\ calls' # calls
          /\ lastCall'.op = "EnsureStateUpdate"
          /\ ~lastCall'.result )
        => /\ s_updateFlags' = s_updateFlags
           /\ s_dirtyTextureUnits' = s_dirtyTextureUnits
           /\ \A i \in TextureUnitIds :
                /\ s_textureUnits'[i].textureUpdated = s_textureUnits[i].textureUpdated
                /\ s_textureUnits'[i].samplerUpdated = s_textureUnits[i].samplerUpdated
           /\ \A t \in MatrixTypes : s_matrices'[t].updated = s_matrices[t].updated
      ]_vars

DrawCalls ==
    {"DrawFullscreenQuad", "DrawIndexedPrimitives", "DrawIndexedPrimitivesInstanced",
     "DrawPrimitives", "DrawPrimitivesInstanced"}

DrawIssued == \E i \in DOMAIN ops : ops[i] \in DrawCommands

\* the draw command of the last call came after the end of a successful
\* EnsureStateUpdate, whose last operation is ApplyStates
DrawnAfterUpdate ==
    \A i \in DOMAIN ops :
        ops[i] \in DrawCommands => \E j \in 1..(i - 1) : ops[j] = "ApplyStates"

\* C5 as stated: a draw command is issued only after EnsureStateUpdate
\* succeeded in the same call, the dirty bitmask then holds no bit of the
\* program, the textures, the matrices or the vertex array, and a call whose
\* EnsureStateUpdate failed issues no draw command.
C5_DrawOnlyWhenClean ==
    /\ DrawIssued =>
            /\ lastCall.op \in DrawCalls
            /\ DrawnAfterUpdate
            /\ s_updateFlags = {}
    /\ (lastCall.op \in DrawCalls /\ ~lastCall.result) => ~DrawIssued

\* C5 amended: as C5, the bit of the vertex array being clear when vertex
\* array objects are supported; without them it stays set and the vertex
\* attributes were specified in the same call, before the draw command.
C5_DrawOnlyWhenResolved ==
    /\ DrawIssued =>
            /\ lastCall.op \in DrawCalls
            /\ DrawnAfterUpdate
            /\ s_updateFlags \subseteq {Update_VAO}
            /\ s_useVertexArrayObjects => s_updateFlags = {}
            /\ ~s_useVertexArrayObjects => "VertexAttribPointer" \in OpsOf(ops)
    /\ (lastCall.op \in DrawCalls /\ ~lastCall.result) => ~DrawIssued

\* an indexed draw issued without vertex array objects
C5_Witness ==
    /\ lastCall.op = "DrawIndexedPrimitives"
    /\ DrawIssued
    /\ ~s_useVertexArrayObjects

(***************************************************************************)
(* The vertex array table (SpecVAO)                                        *)
(***************************************************************************)
\* the last call ran the vertex array stage of EnsureStateUpdate with vertex
\* array objects: the stage ends with SetBuffer
ResolvedVAO ==
    /\ s_useVertexArrayObjects
    /\ lastCall.op \in DrawCalls \cup {"EnsureStateUpdate"}
    /\ "SetBuffer" \in OpsOf(ops)

\* the keys of the context's table that the renderer's buffers and
\* instancing switch resolve to
ResolvedKeys(vaos, context, indexBuffer, vertexBuffer, instancing) ==
    IF context \notin DOMAIN vaos THEN {}
    ELSE { key \in DOMAIN vaos[context] :
                /\ key[1] = indexBuffer
                /\ key[2] = vertexBuffer
                /\ key[4] = IF instancing THEN s_instancingDeclaration ELSE Null }

HandlesOf(table) == { table[key] : key \in DOMAIN table }

\* C6: in a context, the handle of a key never changes while its entry stays
\* in the table, no two keys share a handle, and a reconciliation selects the
\* handle of the entry of its key, which it creates only if the table has no
\* entry for the key.
C6_SameKeySameHandle ==
    [][ /\ \A c \in DOMAIN s_vaos \cap DOMAIN s_vaos' :
            \A key \in DOMAIN s_vaos[c] \cap DOMAIN s_vaos'[c] :
                s_vaos'[c][key] = s_vaos[c][key]
        /\ \A c \in DOMAIN s_vaos' :
            \A k1, k2 \in DOMAIN s_vaos'[c] : s_vaos'[c][k1] = s_vaos'[c][k2] => k1 = k2
        /\ (calls' # calls /\ ResolvedVAO') =>
            \E key \in ResolvedKeys(s_vaos', currentContext, s_indexBuffer', s_vertexBuffer',
                                    s_instancing') :
                /\ s_currentVAO' = s_vaos'[currentContext][key]
                /\ IF currentContext \in DOMAIN s_vaos /\ key \in DOMAIN s_vaos[currentContext]
                       THEN "GenVertexArrays" \notin OpsOf(ops')
                       ELSE /\ "GenVertexArrays" \in OpsOf(ops')
                            /\ currentContext \in DOMAIN s_vaos =>
                                    s_currentVAO' \notin HandlesOf(s_vaos[currentContext])
      ]_vars

\* a reconciliation that found the entry of its key in a table of two entries
C6_Witness ==
    /\ ResolvedVAO
    /\ lastCall.op = "EnsureStateUpdate"
    /\ "GenVertexArrays" \notin OpsOf(ops)
    /\ currentContext \in DOMAIN s_vaos
    /\ Cardinality(DOMAIN s_vaos[currentContext]) = 2

DestroyedBufferOrDeclaration(resource) ==
    /\ lastCall.op = "DestroyResource"
    /\ lastCall.arg = resource
    /\ resource \in IndexBuffers \cup VertexBuffers \cup VertexDeclarations

KeyContains(key, resource) == \E i \in 1..4 : key[i] = resource

\* C7: the destruction of an index buffer, a vertex buffer or a vertex
\* declaration leaves in the table of every context exactly the entries whose
\* key does not hold the resource at any of its four positions.
C7_DestroyPurgesExactlyItsKeys ==
    [][ \A resource \in ListenedResources :
            (calls' # calls /\ DestroyedBufferOrDeclaration(resource)') =>
                /\ DOMAIN s_vaos' = DOMAIN s_vaos
                /\ \A c \in DOMAIN s_vaos :
                    /\ DOMAIN s_vaos'[c] =
                            { key \in DOMAIN s_vaos[c] : ~KeyContains(key, resource) }
                    /\ \A key \in DOMAIN s_vaos'[c] : s_vaos'[c][key] = s_vaos[c][key]
      ]_vars

\* a declaration was destroyed: an entry was purged and another one was kept
C7_Witness ==
    /\ \E resource \in VertexDeclarations : DestroyedBufferOrDeclaration(resource)
    /\ \E c \in DOMAIN s_vaos :
        /\ s_vaos[c] # EmptyMap
        /\ glVaoNames[c] > Cardinality(DOMAIN s_vaos[c])

\* C8: the renderer holds no destroyed index or vertex buffer, reads through
\* none, and its current vertex array is 0 or the handle of an entry of the
\* table.
C8_NoDestroyedResourceInUse ==
    /\ s_indexBuffer \in alive \cup {Null}
    /\ s_vertexBuffer \in alive \cup {Null}
    /\ ~useAfterFree
    /\ s_useVertexArrayObjects /\ s_currentVAO # 0 =>
            \E c \in DOMAIN s_vaos : s_currentVAO \in HandlesOf(s_vaos[c])

(***************************************************************************)
(* The batches of the render queue (SpecQueue)                             *)
(***************************************************************************)
\* the instances of the mesh in the entry of the material
InstancesOf(models, material, mesh) == Len(models[material].staticMeshes[mesh])

ReachedThreshold(models, material) ==
    \E mesh \in DOMAIN models[material].staticMeshes :
        InstancesOf(models, material, mesh) >= NAZARA_GRAPHICS_INSTANCING_MIN_INSTANCES_COUNT

InstancingEnabled(models, material) ==
    material \in DOMAIN models /\ models[material].enableInstancing

\* C9 as stated: the entry that holds a (material, mesh) pair with fewer
\* instances than the threshold has its instancing flag false, and the entry
\* of a pair that reached the threshold has it true.
C9_FlagFollowsPair ==
    \A material \in DOMAIN opaqueModels :
        \A mesh \in DOMAIN opaqueModels[material].staticMeshes :
            opaqueModels[material].enableInstancing =
                (InstancesOf(opaqueModels, material, mesh)
                    >= NAZARA_GRAPHICS_INSTANCING_MIN_INSTANCES_COUNT)

\* C9 amended: the flag is the one of the material's entry.  It is true as
\* soon as a mesh of the material has reached the threshold, and it becomes
\* true only in an AddSubMesh or AddModel call that brings a mesh of the
\* material to the threshold, so it is false while no mesh of the material
\* has reached the threshold since the entry was created.
C9_FlagFollowsMaterial ==
    [][ \A material \in DOMAIN opaqueModels' :
            /\ ReachedThreshold(opaqueModels', material) =>
                    opaqueModels'[material].enableInstancing
            /\ ( /\ opaqueModels'[material].enableInstancing
                 /\ ~InstancingEnabled(opaqueModels, material) ) =>
                    /\ lastCall'.op \in {"AddSubMesh", "AddModel"}
                    /\ \E mesh \in DOMAIN opaqueModels'[material].staticMeshes :
                        /\ InstancesOf(opaqueModels', material, mesh)
                                >= NAZARA_GRAPHICS_INSTANCING_MIN_INSTANCES_COUNT
                        /\ ( /\ material \in DOMAIN opaqueModels
                             /\ mesh \in DOMAIN opaqueModels[material].staticMeshes ) =>
                                InstancesOf(opaqueModels, material, mesh)
                                    < NAZARA_GRAPHICS_INSTANCING_MIN_INSTANCES_COUNT
      ]_vars

\* AddSubMesh added the first instance of a mesh to an entry whose flag is true
C9_Witness ==
    /\ lastCall.op = "AddSubMesh"
    /\ InstancingEnabled(opaqueModels, lastCall.arg.material)
    /\ lastCall.arg.subMesh \in DOMAIN opaqueModels[lastCall.arg.material].staticMeshes
    /\ InstancesOf(opaqueModels, lastCall.arg.material, lastCall.arg.subMesh) = 1

Submissions == {"AddSubMesh", "AddSprite", "AddLight", "AddModel"}

\* C10: an AddSubMesh, AddSprite, AddLight or AddModel call leaves in place
\* every entry whose instancing flag is true, with its flag true.
C10_InstancingNeverRevoked ==
    [][ (calls' # calls /\ lastCall'.op \in Submissions) =>
            \A material \in DOMAIN opaqueModels :
                opaqueModels[material].enableInstancing =>
                    InstancingEnabled(opaqueModels', material)
      ]_vars

\* a sub-mesh was submitted to an entry whose flag is true, for a mesh that is
\* below the threshold
C10_Witness ==
    /\ lastCall.op = "AddSubMesh"
    /\ InstancingEnabled(opaqueModels, lastCall.arg.material)
    /\ lastCall.arg.subMesh \in DOMAIN opaqueModels[lastCall.arg.material].staticMeshes
    /\ InstancesOf(opaqueModels, lastCall.arg.material, lastCall.arg.subMesh) = 2

(***************************************************************************)
(* The instance lists of the render queue (SpecQueue)                      *)
(***************************************************************************)
\* the sub-mesh submissions a call makes, in order: one for AddSubMesh, one
\* per sub-mesh of the model for AddModel
SubmissionsOf(call) ==
    IF call.op = "AddSubMesh" THEN << call.arg >>
    ELSE IF call.op = "AddModel" /\ call.arg # Null /\ IsDrawable(call.arg)
        THEN [i \in DOMAIN ModelSubMeshes(call.arg) |->
                [material |-> ModelSubMeshes(call.arg)[i].material,
                 subMesh |-> ModelSubMeshes(call.arg)[i].subMesh,
                 transformMatrix |-> ModelTransform(call.arg)]]
    ELSE << >>

\* the instances that the static opaque submissions of the pair add
RECURSIVE InstancesSubmitted(_, _, _)
InstancesSubmitted(submissions, material, mesh) ==
    IF submissions = << >> THEN << >>
    ELSE LET first == Head(submissions)
         IN  (IF /\ first.material = material
                 /\ first.subMesh = mesh
                 /\ GetAnimationType(mesh) = "nzAnimationType_Static"
                 /\ ~IsBlendEnabled(material)
                 THEN << [transformMatrix |-> first.transformMatrix] >>
                 ELSE << >>)
             \o InstancesSubmitted(Tail(submissions), material, mesh)

HasSubEntry(models, material, mesh) ==
    material \in DOMAIN models /\ mesh \in DOMAIN models[material].staticMeshes

\* the instance list of the pair, empty when the pair has no sub-entry
InstanceList(models, material, mesh) ==
    IF HasSubEntry(models, material, mesh) THEN models[material].staticMeshes[mesh]
    ELSE << >>

\* C11: in every step, the instance list of each (material, mesh) sub-entry
\* is the list it had before the step (empty if the sub-entry is created by
\* the step) followed by the world transforms of the static opaque
\* submissions the step makes for that pair, in submission order: the list is
\* the sequence of the transforms submitted since the sub-entry was created.
C11_InstanceListIsSubmissionHistory ==
    [][ \A material \in Materials : \A mesh \in StaticMeshes \cup SkeletalMeshes :
            HasSubEntry(opaqueModels', material, mesh) =>
                InstanceList(opaqueModels', material, mesh) =
                    InstanceList(opaqueModels, material, mesh)
                        \o InstancesSubmitted(SubmissionsOf(lastCall'), material, mesh)
      ]_vars

\* a sub-entry holds two different transforms, the second one just submitted
C11_Witness ==
    /\ lastCall.op = "AddSubMesh"
    /\ HasSubEntry(opaqueModels, lastCall.arg.material, lastCall.arg.subMesh)
    /\ Len(InstanceList(opaqueModels, lastCall.arg.material, lastCall.arg.subMesh)) >= 2
    /\ InstanceList(opaqueModels, lastCall.arg.material, lastCall.arg.subMesh)[1].transformMatrix
            # lastCall.arg.transformMatrix


(***************************************************************************)
(* The destruction of materials and meshes (SpecQueue)                     *)
(***************************************************************************)
\* the queue is a listener of the resource
Registered(resource) == queueListenerRegs[resource] > 0

\* the step is the destruction of a resource the queue is registered with
DestroysRegistered(resource) ==
    /\ lastCall'.op = "DestroyQueueResource"
    /\ lastCall'.arg = resource
    /\ calls' # calls
    /\ Registered(resource)

PurgedModels(models, resource) ==
    [m \in DOMAIN models \ {resource} |->
        [models[m] EXCEPT !.skeletalMeshes = Erase(@, resource),
                          !.staticMeshes = Erase(@, resource)]]

\* C13: the destruction of a registered material or mesh leaves no entry
\* keyed by it in any table of the queue (the opaque batch table, the mesh
\* maps of the materials, the sprite table) and leaves the entries keyed by
\* other identities as they were.
C13_DestroyedIdentityIsNoKey ==
    [][ \A resource \in QueueResources :
            DestroysRegistered(resource) =>
                /\ opaqueModels' = PurgedModels(opaqueModels, resource)
                /\ sprites' = Erase(sprites, resource)
      ]_vars


\* C14: the queue's handling of the destruction of a material or mesh it is
\* registered with reads no field of the destroyed object.
C14_DestructionReadsNothingOfDestroyed ==
    [][ \A resource \in QueueResources :
            DestroysRegistered(resource) => resource \notin queueDerefs'
      ]_vars


(***************************************************************************)
(* Clear (SpecQueue)                                                       *)
(***************************************************************************)
\* the step is a call of Clear with this flag
Clears(fully) == lastCall'.op = "Clear" /\ lastCall'.arg = fully /\ calls' # calls

\* C15: Clear(false) leaves the keys of the opaque batch table and of the
\* sprite table as they are, Clear(true) leaves both tables empty; both empty
\* the three light lists and make exactly one call of the forward queue,
\* Clear with the same flag.
C15_ClearKeepsOrEmptiesTables ==
    [][ \A fully \in BOOLEAN :
            Clears(fully) =>
                /\ directionalLights' = << >>
                /\ pointLights' = << >>
                /\ spotLights' = << >>
                /\ m_forwardQueue' = Append(m_forwardQueue, [call |-> "Clear", arg |-> fully])
                /\ fully => opaqueModels' = EmptyMap /\ sprites' = EmptyMap
                /\ ~fully => /\ DOMAIN opaqueModels' = DOMAIN opaqueModels
                              /\ DOMAIN sprites' = DOMAIN sprites
      ]_vars

\* Clear(false) was called on a queue that holds a batch and a sprite
C15_Witness ==
    /\ lastCall.op = "Clear"
    /\ lastCall.arg = FALSE
    /\ DOMAIN opaqueModels # {}
    /\ DOMAIN sprites # {}
    /\ m_forwardQueue # << >>


\* C16: after Clear(true) the queue is a listener of no material and of no
\* mesh, whatever was submitted and destroyed before.
C16_FullClearLeavesNoListener ==
    [][ Clears(TRUE) => \A resource \in QueueResources : queueListenerRegs'[resource] = 0
      ]_vars


\* C17: Clear(false) empties the instance list of every (material, mesh)
\* sub-entry together with the light lists, and keeps the entries, the
\* sub-entries and the listener registrations.
C17_ShallowClearEmptiesInstanceLists ==
    [][ Clears(FALSE) =>
            /\ directionalLights' = << >> /\ pointLights' = << >> /\ spotLights' = << >>
            /\ queueListenerRegs' = queueListenerRegs
            /\ DOMAIN opaqueModels' = DOMAIN opaqueModels
            /\ \A material \in DOMAIN opaqueModels :
                    /\ DOMAIN opaqueModels'[material].staticMeshes
                            = DOMAIN opaqueModels[material].staticMeshes
                    /\ \A mesh \in DOMAIN opaqueModels[material].staticMeshes :
                            opaqueModels'[material].staticMeshes[mesh] = << >>
      ]_vars


(***************************************************************************)
(* Blending materials (SpecQueue)                                          *)
(***************************************************************************)
\* the step makes exactly this call of the forward queue
ForwardsOnce(call, arg) == m_forwardQueue' = Append(m_forwardQueue, [call |-> call, arg |-> arg])

DeferredTablesUnchanged ==
    opaqueModels' = opaqueModels /\ sprites' = sprites
        /\ queueListenerRegs' = queueListenerRegs

\* C18: a drawable sprite or a static sub-mesh whose material has blending
\* enabled is forwarded to the forward queue exactly once by its submission
\* and leaves the sprite table, the opaque batch table and the listener
\* registrations as they are; one with an opaque material is put in the
\* table of the deferred queue and is not forwarded.  No table has a
\* blending material as a key.
C18_BlendedGoesForwardOnly ==
    [][ /\ \A material \in DOMAIN opaqueModels' \cup DOMAIN sprites' : ~IsBlendEnabled(material)
        /\ (lastCall'.op = "AddSprite" /\ calls' # calls) =>
                LET sprite == lastCall'.arg
                IN  IF sprite = Null \/ ~IsDrawable(sprite)
                        THEN DeferredTablesUnchanged /\ m_forwardQueue' = m_forwardQueue
                    ELSE IF IsBlendEnabled(SpriteMaterial(sprite))
                        THEN DeferredTablesUnchanged /\ ForwardsOnce("AddSprite", sprite)
                    ELSE /\ m_forwardQueue' = m_forwardQueue
                         /\ SpriteMaterial(sprite) \in DOMAIN sprites'
                         /\ sprites'[SpriteMaterial(sprite)] =
                                Append(IF SpriteMaterial(sprite) \in DOMAIN sprites
                                           THEN sprites[SpriteMaterial(sprite)] ELSE << >>,
                                       sprite)
        /\ (lastCall'.op = "AddSubMesh" /\ calls' # calls) =>
                LET sub == lastCall'.arg
                IN  IF GetAnimationType(sub.subMesh) # "nzAnimationType_Static"
                        THEN DeferredTablesUnchanged /\ m_forwardQueue' = m_forwardQueue
                    ELSE IF IsBlendEnabled(sub.material)
                        THEN /\ DeferredTablesUnchanged
                             /\ ForwardsOnce("AddSubMesh",
                                    << sub.material, sub.subMesh, sub.transformMatrix >>)
                    ELSE /\ m_forwardQueue' = m_forwardQueue
                         /\ HasSubEntry(opaqueModels', sub.material, sub.subMesh)
      ]_vars

\* a blended sprite and a blended sub-mesh were forwarded, and the tables of
\* the deferred queue hold an opaque batch and an opaque sprite
C18_Witness ==
    /\ \E i \in DOMAIN m_forwardQueue : m_forwardQueue[i].call = "AddSprite"
    /\ \E i \in DOMAIN m_forwardQueue : m_forwardQueue[i].call = "AddSubMesh"
    /\ DOMAIN opaqueModels # {}
    /\ DOMAIN sprites # {}


(***************************************************************************)
(* The comparators (SpecCompare)                                           *)
(***************************************************************************)
\* s1 is before s2 in the lexicographic order of two sequences of addresses
RECURSIVE LexLess(_, _)
LexLess(s1, s2) ==
    IF s1 = << >> \/ s2 = << >> THEN FALSE
    ELSE IF Head(s1) # Head(s2) THEN Head(s1) < Head(s2)
    ELSE LexLess(Tail(s1), Tail(s2))

\* Less is a strict total order on the set
IsStrictTotalOrder(Less(_, _), set) ==
    /\ \A a \in set : ~Less(a, a)
    /\ \A a \in set, b \in set : Less(a, b) => ~Less(b, a)
    /\ \A a \in set, b \in set, c \in set : (Less(a, b) /\ Less(b, c)) => Less(a, c)
    /\ \A a \in set, b \in set : a # b => (Less(a, b) /\ ~Less(b, a)) \/ (Less(b, a) /\ ~Less(a, b))

\* deferred program, deferred+instancing program, diffuse map, identity
ModelMaterialKey(fields, material) ==
    << AddressOf(fields[material].programs["nzShaderFlags_Deferred"]),
       AddressOf(fields[material].programs["nzShaderFlags_Deferred_Instancing"]),
       AddressOf(fields[material].diffuseMap), AddressOf(material) >>

MaterialComparators == {"BatchedModelMaterialComparator", "BatchedSpriteMaterialComparator"}

\* C19: with the programs and diffuse maps of the materials fixed, each
\* material comparator is a strict total order on the materials
\* (irreflexive, asymmetric, transitive, and exactly one of cmp(a,b), cmp(b,a)
\* for two distinct materials), and the comparator of the opaque batch table
\* is the lexicographic order on deferred program, deferred+instancing
\* program, diffuse map and identity.
C19_MaterialComparatorIsStrictTotalOrder ==
    lastCall.op \in MaterialComparators =>
        LET fields == lastCall.arg.fields
        IN  /\ IsStrictTotalOrder(LAMBDA a, b : BatchedModelMaterialComparator(fields, a, b),
                                   Materials)
            /\ IsStrictTotalOrder(LAMBDA a, b : BatchedSpriteMaterialComparator(fields, a, b),
                                   Materials)
            /\ lastCall.op = "BatchedModelMaterialComparator" =>
                    lastCall.result =
                        LexLess(ModelMaterialKey(fields, lastCall.arg.first),
                                ModelMaterialKey(fields, lastCall.arg.second))

\* two materials with the same programs and diffuse map were compared, and
\* the comparison of the materials themselves decided
C19_Witness ==
    /\ lastCall.op = "BatchedModelMaterialComparator"
    /\ lastCall.arg.first # lastCall.arg.second
    /\ lastCall.arg.fields[lastCall.arg.first] = lastCall.arg.fields[lastCall.arg.second]
    /\ lastCall.result


\* index-buffer storage (null without an index buffer), vertex-buffer
\* storage, identity
MeshKey(fields, subMesh) ==
    << AddressOf(IndexStorage(fields, subMesh)), AddressOf(fields[subMesh].vertexStorage),
       AddressOf(subMesh) >>

MeshComparators == {"BatchedSkeletalMeshComparator", "BatchedStaticMeshComparator"}

\* C20: each mesh comparator, static and skeletal, orders two sub-meshes by
\* the storage of their index buffers, then by the storage of their vertex
\* buffers, then by the sub-meshes themselves, the buffer of the first
\* sub-mesh being compared with the buffer of the second.
C20_MeshComparatorsOrderByStorage ==
    lastCall.op \in MeshComparators =>
        lastCall.result =
            LexLess(MeshKey(lastCall.arg.fields, lastCall.arg.first),
                    MeshKey(lastCall.arg.fields, lastCall.arg.second))


(***************************************************************************)
(* Lights and rejected submissions (SpecQueue)                             *)
(***************************************************************************)
\* the light lists after the light is appended to the list of its kind
LightListsWith(light) ==
    [directional |-> IF GetLightType(light) = "nzLightType_Directional"
                        THEN Append(directionalLights, light) ELSE directionalLights,
     point |-> IF GetLightType(light) = "nzLightType_Point"
                  THEN Append(pointLights, light) ELSE pointLights,
     spot |-> IF GetLightType(light) = "nzLightType_Spot"
                 THEN Append(spotLights, light) ELSE spotLights]

LightListsUnchanged ==
    /\ directionalLights' = directionalLights
    /\ pointLights' = pointLights
    /\ spotLights' = spotLights

RejectedSubmission ==
    /\ calls' # calls
    /\ \/ lastCall'.op \in {"AddModel", "AddSprite"}
            /\ (lastCall'.arg = Null \/ ~IsDrawable(lastCall'.arg))
       \/ lastCall'.op = "AddSubMesh"
            /\ GetAnimationType(lastCall'.arg.subMesh) = "nzAnimationType_Skeletal"

\* C22: a rejected submission leaves the batch table, the sprite table, the
\* light lists and the listener registrations as they are and calls nothing
\* of the forward queue, so that the submissions after it find the queue as
\* the ones before left it.
C22_RejectedSubmissionHasNoEffect ==
    [][ RejectedSubmission =>
            /\ DeferredTablesUnchanged
            /\ LightListsUnchanged
            /\ m_forwardQueue' = m_forwardQueue
      ]_vars

\* a skeletal sub-mesh was submitted to a queue that holds a batch
C22_Witness ==
    /\ lastCall.op = "AddSubMesh"
    /\ lastCall.arg.subMesh \in SkeletalMeshes
    /\ DOMAIN opaqueModels # {}
    /\ queueListenerRegs[lastCall.arg.subMesh] = 0


\* the last call issued the operation
Issued(op) == \E i \in DOMAIN ops : ops[i] = op

\* the step taken is a call of the function
Calls(name) == calls' # calls /\ lastCall'.op = name

\* C23: the counter is never negative; an Initialize call that returns true
\* adds one to it and runs the initialization exactly when it was zero; an
\* Uninitialize call takes one from it unless it is zero, releases the module
\* exactly when it was one, and changes nothing when it was zero;
\* IsInitialized returns whether the counter is not zero.
C23_CounterCountsInitializeCalls ==
    [][ /\ s_moduleReferenceCounter' >= 0
        /\ (Calls("Initialize") /\ lastCall'.result) =>
                /\ s_moduleReferenceCounter' = s_moduleReferenceCounter + 1
                /\ Issued("NzUtility::Initialize")' = (s_moduleReferenceCounter = 0)
                /\ ~Issued("NzUtility::Uninitialize")'
        /\ (Calls("Initialize") /\ ~lastCall'.result) =>
                /\ s_moduleReferenceCounter = 0
                /\ s_moduleReferenceCounter' = 0
        /\ Calls("Uninitialize") =>
                /\ s_moduleReferenceCounter' =
                        IF s_moduleReferenceCounter > 0 THEN s_moduleReferenceCounter - 1 ELSE 0
                /\ Issued("NzUtility::Uninitialize")' = (s_moduleReferenceCounter = 1)
                /\ ~Issued("NzUtility::Initialize")'
                /\ s_moduleReferenceCounter = 0 => UNCHANGED << rendererVars, envVars >>
        /\ Calls("IsInitialized") =>
                /\ lastCall'.result = (s_moduleReferenceCounter # 0)
                /\ UNCHANGED << rendererVars, envVars >>
      ]_vars

\* Uninitialize has brought the counter from two to one and released nothing
C23_Witness ==
    /\ lastCall.op = "Uninitialize"
    /\ s_moduleReferenceCounter = 1
    /\ ops = << >>

\* C24: an Initialize call at counter zero in which a step fails returns false
\* and leaves the counter at zero and IsInitialized false; an Initialize call
\* at counter zero in which no step fails, after a failed one too, runs every
\* step of the initialization and returns true.
C24_FailedInitializeLeavesModuleUninitialized ==
    [][ (Calls("Initialize") /\ s_moduleReferenceCounter = 0) =>
            IF lastCall'.arg # Null
                THEN /\ ~lastCall'.result
                     /\ s_moduleReferenceCounter' = 0
                     /\ ~(IsInitialized(Cur).result)'
            ELSE /\ lastCall'.result
                 /\ s_moduleReferenceCounter' = 1
                 /\ (IsInitialized(Cur).result)'
                 /\ ops' = InitializeSteps \o << "NzLoaders_Texture_Register" >>
                 /\ (s_textureUnits = [i \in TextureUnitIds |-> DefaultTextureUnit])'
      ]_vars

\* the last step of the initialization has failed
C24_Witness ==
    /\ lastCall = [op |-> "Initialize", arg |-> "NzTextureSampler::Initialize",
                   result |-> FALSE]
    /\ s_moduleReferenceCounter = 0
    /\ Issued("s_fullscreenQuadBuffer.Fill")
    /\ Issued("NzUtility::Uninitialize")

\* C25: an EnsureStateUpdate call with no program or no target bound returns
\* false, issues no GPU operation and leaves the state of the renderer, the
\* listener registrations and the vertex array names as they were; a draw call
\* in the same situation issues no GPU operation, hence no draw command.
C25_UpdateWithoutProgramOrTargetDoesNothing ==
    [][ (s_program = Null \/ s_target = Null) =>
            /\ Calls("EnsureStateUpdate") =>
                    /\ ~lastCall'.result
                    /\ ops' = << >>
                    /\ UNCHANGED << rendererVars, listenerRegs, glVaoNames >>
            /\ (calls' # calls /\ lastCall'.op \in DrawCalls) =>
                    /\ ~lastCall'.result
                    /\ ops' = << >>
                    /\ ~DrawIssued'
      ]_vars

\* a draw was asked for with a program and no target, in an active context
C25_Witness ==
    /\ lastCall.op = "DrawPrimitives"
    /\ ~lastCall.result
    /\ s_program # Null
    /\ s_target = Null
    /\ currentContext # Null

\* the step taken is a call of a setter with an argument it does not accept
RejectedSetterCall ==
    /\ calls' # calls
    /\ \/ /\ lastCall'.op \in {"SetTexture", "SetTextureSampler"}
          /\ lastCall'.arg >= s_maxTextureUnit
       \/ /\ lastCall'.op = "SetShaderProgram"
          /\ lastCall'.arg \in UncompiledPrograms
       \/ /\ lastCall'.op \in {"SetIndexBuffer", "SetVertexBuffer"}
          /\ lastCall'.arg \in SoftwareBuffers
       \/ /\ lastCall'.op \in {"SetLineWidth", "SetPointSize"}
          /\ lastCall'.arg <= 0

\* C26: a setter called with a texture unit out of range, a program that is
\* not compiled, a buffer that is not a hardware buffer, or a width or size
\* that is not positive leaves the whole state of the renderer, the dirty
\* flags and the dirty units included, as it was, and issues no GPU operation.
C26_RejectedSetterChangesNothing ==
    [][ RejectedSetterCall => (UNCHANGED << rendererVars, envVars >> /\ ops' = << >>) ]_vars

\* a width of zero was refused after a width of two had been set
C26_Witness ==
    /\ lastCall.op = "SetLineWidth"
    /\ lastCall.arg = 0
    /\ s_states.lineWidth = 2

\* C27: a Clear call of the renderer with flags that are not zero and no
\* target bound is aborted: it calls nothing through the absent target and
\* issues no GPU operation, the clear command included.
C27_ClearWithoutTargetIsAborted ==
    [][ (Calls("NzRenderer::Clear") /\ lastCall'.arg # 0 /\ s_target = Null) =>
            /\ ~Issued("EnsureTargetUpdated")'
            /\ ~Issued("Clear")'
            /\ ops' = << >>
      ]_vars

\* the step taken is an instanced draw call
InstancedDrawCall ==
    /\ calls' # calls
    /\ lastCall'.op \in {"DrawIndexedPrimitivesInstanced", "DrawPrimitivesInstanced"}

\* C28: an instanced draw call issues its draw command only if instancing is
\* supported and the instance count is over zero and at most the capacity of
\* the instance buffer; otherwise the call issues no GPU operation and leaves
\* the instancing mode, the dirty flags, the bound resources and the rest of
\* the state of the renderer as they were.
C28_InstancedDrawChecksItsCount ==
    [][ InstancedDrawCall =>
            IF s_capInstancing /\ lastCall'.arg > 0 /\ lastCall'.arg <= MaxInstanceCount
                THEN TRUE
            ELSE /\ ~DrawIssued'
                 /\ ~lastCall'.result
                 /\ ops' = << >>
                 /\ UNCHANGED << rendererVars, envVars >>
      ]_vars

\* more instances than the instance buffer holds were asked for, with all that
\* a draw needs in place
C28_Witness ==
    /\ lastCall = [op |-> "DrawPrimitivesInstanced", arg |-> MaxInstanceCount + 1,
                   result |-> FALSE]
    /\ s_capInstancing
    /\ currentContext # Null
    /\ s_program # Null
    /\ s_target # Null
    /\ s_vertexBuffer # Null
    /\ ~s_instancing

\* what a declarative setter does: the argument is stored, the dirty flag of
\* the setter's category is set if the value changed, no other flag is set
\* and no GPU operation is issued
Declares(stored, changed, flag) ==
    /\ stored
    /\ changed => flag \in s_updateFlags'
    /\ s_updateFlags' \ s_updateFlags \subseteq {flag}
    /\ ops' = << >>

\* C29: SetIndexBuffer, SetVertexBuffer, SetShaderProgram, SetTexture,
\* SetMatrix and EnableInstancing, called with an argument they accept, null
\* included, store the argument as the mirrored value, set the dirty flag of
\* their category (vertex array, program, textures, matrices) if the value
\* changed, set no other flag and issue no GPU operation.
C29_SetterStoresItsArgument ==
    [][ /\ \A indexBuffer \in IndexBuffers \cup {Null} :
            (Calls("SetIndexBuffer") /\ DoSetIndexBuffer(indexBuffer)) =>
                Declares(s_indexBuffer' = indexBuffer, s_indexBuffer # indexBuffer,
                         Update_VAO)
        /\ \A vertexBuffer \in VertexBuffers \cup {Null} :
            (Calls("SetVertexBuffer") /\ DoSetVertexBuffer(vertexBuffer)) =>
                Declares(s_vertexBuffer' = vertexBuffer, s_vertexBuffer # vertexBuffer,
                         Update_VAO)
        /\ \A program \in Programs \cup {Null} :
            (Calls("SetShaderProgram") /\ DoSetShaderProgram(program)) =>
                Declares(s_program' = program, s_program # program, Update_Program)
        /\ \A unit \in TextureUnitIds, texture \in Textures \cup {Null} :
            (Calls("SetTexture") /\ DoSetTexture(unit, texture)) =>
                Declares(s_textureUnits'[unit].texture = texture,
                         s_textureUnits[unit].texture # texture, Update_Textures)
        /\ \A type \in MatrixTypes, matrix \in MatrixInputs :
            (Calls("SetMatrix") /\ DoSetMatrix(type, matrix)) =>
                Declares(s_matrices'[type].matrix = matrix,
                         s_matrices[type].matrix # matrix, Update_Matrices)
        /\ \A instancing \in BOOLEAN :
            (Calls("EnableInstancing") /\ DoEnableInstancing(instancing)) =>
                Declares(s_instancing' = instancing, s_instancing # instancing, Update_VAO)
      ]_vars

\* C30: in every state reached after the initialization, the slots of the
\* base matrices Projection, View and World are marked current.
C30_BaseSlotsStayCurrent == \A type \in BaseTypes : s_matrices[type].updated

\* C31: the key of the vertex array that a reconciliation selects holds an
\* instancing declaration exactly when instancing is active, so that the
\* entries of the two modes differ and none serves the other mode.
C31_KeyHoldsInstancingFormatWhenActive ==
    [][ (calls' # calls /\ ResolvedVAO' /\ currentContext' \in DOMAIN s_vaos') =>
            \A key \in DOMAIN s_vaos'[currentContext'] :
                s_vaos'[currentContext'][key] = s_currentVAO' =>
                    (key[4] # Null) = s_instancing'
      ]_vars

DestroyedContext(context) ==
    /\ lastCall.op = "DestroyResource"
    /\ lastCall.arg = context

\* C32: a reconciliation changes the table of the current context only and
\* creates a vertex array for a key that this table lacks, whatever the tables
\* of the other contexts hold; the destruction of a context removes the table
\* of that context and leaves the tables of the other contexts as they were.
C32_EntriesBelongToOneContext ==
    [][ /\ (calls' # calls /\ ResolvedVAO') =>
            /\ \A c \in DOMAIN s_vaos \ {currentContext} :
                    c \in DOMAIN s_vaos' /\ s_vaos'[c] = s_vaos[c]
            /\ \A key \in DOMAIN s_vaos'[currentContext] :
                    (currentContext \notin DOMAIN s_vaos
                        \/ key \notin DOMAIN s_vaos[currentContext]) =>
                            /\ "GenVertexArrays" \in OpsOf(ops')
                            /\ s_currentVAO' = s_vaos'[currentContext][key]
        /\ \A context \in Contexts :
            (calls' # calls /\ DestroyedContext(context)') =>
                /\ DOMAIN s_vaos' = DOMAIN s_vaos \ {context}
                /\ \A c \in DOMAIN s_vaos' : s_vaos'[c] = s_vaos[c]
      ]_vars

\* a vertex array was created in each of two contexts, one of the contexts was
\* destroyed and the table of the other one still holds its entry
C32_Witness ==
    /\ \E context \in Contexts : DestroyedContext(context)
    /\ \E c \in DOMAIN s_vaos :
        /\ s_vaos[c] # EmptyMap
        /\ glVaoNames[c] = 1
        /\ \E c2 \in Contexts \ DOMAIN s_vaos : glVaoNames[c2] = 1

\* C33: the Uninitialize call that releases the module leaves the table of
\* vertex arrays empty and the listener of the renderer registered with no
\* context, buffer or declaration.
C33_ReleasedModuleListensToNothing ==
    [][ (Calls("Uninitialize") /\ s_moduleReferenceCounter = 1) =>
            /\ s_vaos' = EmptyMap
            /\ \A resource \in ListenedResources : listenerRegs'[resource] = 0
      ]_vars

\* the stage of EnsureStateUpdate that issues the operation: 0 for the program
\* and the size of the target, 1 for the textures, 2 for the matrices, 3 for
\* the vertex array, 4 for the bindings and states that end the function
StageOf(op) ==
    CASE op \in {"EnsureTargetUpdated", "BindProgram", "BindTextures", "SendVector"} -> 0
      [] op \in {"BindTextureUnit", "EnsureMipmapsUpdate", "SamplerBind", "SamplerApply"} -> 1
      [] op = "SendMatrix" -> 2
      [] op \in {"BindTexture", "ApplyStates"} -> 4
      [] OTHER -> 3

\* C34: in an EnsureStateUpdate call that got past its checks, the operations of
\* the program come first, then those of the textures, of the matrices and of
\* the vertex array, in that order; when the call succeeds the flags of the
\* program, the textures and the matrices are clear, and when it stops at the
\* vertex array for lack of a vertex buffer the flag of the vertex array is
\* still set while those of the stages already done are clear.
C34_StagesRunInFixedOrder ==
    [][ (Calls("EnsureStateUpdate") /\ ops' # << >>) =>
            /\ \A i, j \in DOMAIN ops' : i < j => StageOf(ops'[i]) <= StageOf(ops'[j])
            /\ s_updateFlags' \cap {Update_Program, Update_Textures, Update_Matrices} = {}
            /\ ~lastCall'.result =>
                    /\ Update_VAO \in s_updateFlags'
                    /\ \A i \in DOMAIN ops' : StageOf(ops'[i]) < 3
      ]_vars

\* a successful call issued operations of every stage
C34_Witness ==
    /\ lastCall.op = "EnsureStateUpdate"
    /\ lastCall.result
    /\ \A stage \in 0..4 : \E i \in DOMAIN ops : StageOf(ops[i]) = stage

\* how many times the last call issued the operation
TimesIssued(op) == Cardinality({ i \in DOMAIN ops : ops[i] = op })

SentMatrices ==
    /\ Calls("EnsureStateUpdate")
    /\ lastCall'.result
    /\ s_updateFlags \cap {Update_Program, Update_Matrices} # {}

\* the slots with a uniform in the program the call ran with
PresentSlots == { type \in MatrixTypes : s_matrices'[type].location # -1 }

\* the matrix and the flag of the slot are those of before the call
SlotUntouched(type) ==
    /\ s_matrices'[type].matrix = s_matrices[type].matrix
    /\ s_matrices'[type].updated = s_matrices[type].updated

\* the slots that UpdateMatrix reads, directly or not, to compute the slot
RECURSIVE SourcesOf(_)
SourcesOf(type) == DependsOn(type) \cup UNION { SourcesOf(d) : d \in DependsOn(type) }

\* C36 as stated: a reconciliation neither recomputes nor sends a slot whose
\* location is -1 and leaves its flag as it was, and leaves every slot with a
\* location current.
C36_AbsentSlotIsUntouched ==
    [][ SentMatrices =>
            /\ TimesIssued("SendMatrix")' = Cardinality(PresentSlots)
            /\ \A type \in MatrixTypes \ PresentSlots : SlotUntouched(type)
            /\ \A type \in PresentSlots : s_matrices'[type].updated
      ]_vars

\* C36 amended: a reconciliation sends exactly the slots with a location and
\* leaves them current; a slot whose location is -1 is never sent, and it is
\* recomputed or marked current only if a slot with a location is computed
\* from it, in which case it is current afterwards.
C36_AbsentSlotChangesOnlyAsSource ==
    [][ SentMatrices =>
            /\ TimesIssued("SendMatrix")' = Cardinality(PresentSlots)
            /\ \A type \in PresentSlots : s_matrices'[type].updated
            /\ \A type \in MatrixTypes \ PresentSlots :
                    \/ SlotUntouched(type)
                    \/ /\ \E present \in PresentSlots :
                            type \in SourcesOf(present) /\ ~s_matrices[present].updated
                       /\ ~s_matrices[type].updated
                       /\ s_matrices'[type].updated
      ]_vars

\* ViewProj has no uniform in the program and was recomputed for InvViewProj,
\* which has one; InvView has none either and is still stale
C36_Witness ==
    /\ lastCall.op = "EnsureStateUpdate"
    /\ lastCall.result
    /\ s_program = "prog1"
    /\ s_matrices["View"].matrix = MatA
    /\ s_matrices["ViewProj"].location = -1
    /\ s_matrices["ViewProj"].updated
    /\ s_matrices["ViewProj"].matrix = MatA
    /\ ~s_matrices["InvView"].updated

C39_VAOFlagFollowsSupport ==
    (lastCall.op \in DrawCalls \cup {"EnsureStateUpdate"} /\ lastCall.result = TRUE) =>
        /\ Update_VAO \in s_updateFlags <=> ~s_useVertexArrayObjects
        /\ ~s_useVertexArrayObjects => "VertexAttribPointer" \in OpsOf(ops)

\* the second successful EnsureStateUpdate without vertex array objects
C39_Witness ==
    /\ lastCall.op = "EnsureStateUpdate"
    /\ lastCall.result = TRUE
    /\ esuRun = 2
    /\ ~s_useVertexArrayObjects
    /\ Update_VAO \in s_updateFlags
    /\ "VertexAttribPointer" \in OpsOf(ops)

\* C40: in every state the flag of the textures is set exactly when some
\* texture unit is dirty, and every dirty unit is the index of a texture unit.
C40_TexturesFlagMatchesDirtyUnits ==
    /\ Update_Textures \in s_updateFlags <=> s_dirtyTextureUnits # {}
    /\ s_dirtyTextureUnits \subseteq DOMAIN s_textureUnits

=============================================================================
